---- MODULE Spec2Model ----
(***************************************************************************)
(* String Analyzer API: the analyzer (analyzeString), the natural-language *)
(* translator (parseNaturalLanguageQuery), the strings table and the       *)
(* request handlers that use them.                                         *)
(*                                                                         *)
(* A JavaScript string is modelled as a sequence of characters (code       *)
(* points), each a one-element TLA+ string.  Two characters are kept apart *)
(* from ASCII because the code treats them differently from ASCII:         *)
(*   "U+1F600"  an astral character: String.length counts it as two UTF-16 *)
(*              units, for...of and new Set(str) iterate it as one;        *)
(*   "U+0130"   a character whose toLowerCase() is two characters          *)
(*              ("i" followed by "U+0307").                                *)
(***************************************************************************)
EXTENDS Integers, Sequences, FiniteSets, TLC

VARIABLES
  store,     \* the rows of table strings
  now,       \* the database clock (CURRENT_TIMESTAMP)
  nodeEnv,   \* process.env.NODE_ENV
  req,       \* per connection: the create request in flight, if any
  res,       \* the response sent last
  anInput,   \* SpecAnalyze: the argument of analyzeString
  anResult,  \* SpecAnalyze: its result
  nlQuery,   \* SpecTranslate: req.query.query
  nlResp,    \* SpecTranslate: what the natural-language handler did
  listQuery, \* SpecList: req.query of GET /strings
  listResp,  \* SpecList: the response to it
  routeReq,  \* SpecRoute: the method and the path of the request
  limiter    \* SpecLimit: the clock and the counters of the rate limiter

vars ==
  <<store, now, nodeEnv, req, res, anInput, anResult, nlQuery, nlResp,
    listQuery, listResp, routeReq, limiter>>

(***************************************************************************)
(* Bounds of the model.                                                    *)
(***************************************************************************)
\* longest input handed to analyzeString in SpecAnalyze
MaxInputLen == 3

\* connections that can have a request in flight at the same time
MaxRequests == 2

\* last value of the database clock
MaxTime == 1

\* the longest value validateStringInput lets through: 10000 in the source,
\* scaled down to the short strings of the model
MaxValueLength == 3

\* bits of the significand of a Number (53 in JavaScript, scaled): integers
\* up to 2^MantissaBits are exact, larger ones are rounded
MantissaBits == 4

\* most phrases joined into one query in SpecTranslate
MaxPhrases == 2

\* the longest query validateNaturalLanguageQuery lets through
MaxQueryLength == 500

(***************************************************************************)
(* Characters.                                                             *)
(***************************************************************************)
LowerSeq ==
  <<"a","b","c","d","e","f","g","h","i","j","k","l","m",
    "n","o","p","q","r","s","t","u","v","w","x","y","z">>

UpperSeq ==
  <<"A","B","C","D","E","F","G","H","I","J","K","L","M",
    "N","O","P","Q","R","S","T","U","V","W","X","Y","Z">>

DigitSeq == <<"0","1","2","3","4","5","6","7","8","9">>

Range(f) == {f[i] : i \in DOMAIN f}

LowerLetters == Range(LowerSeq)
UpperLetters == Range(UpperSeq)
Digits == Range(DigitSeq)

\* the class \s of a JavaScript regular expression, which is also what
\* String.prototype.trim removes (the members the model uses)
IsWhiteSpace(c) == c \in {" ", "\t", "\n"}

\* the class [a-zA-Z0-9]
IsAsciiAlnum(c) == c \in LowerLetters \cup UpperLetters \cup Digits

\* the class \d
IsDigit(c) == c \in Digits

\* UTF-16 units of one character: what String.length counts
Utf16Units(c) == IF c = "U+1F600" THEN 2 ELSE 1

\* toLowerCase of one character: a sequence, since U+0130 lower-cases to two
LowerChar(c) ==
  IF c \in UpperLetters
    THEN <<LowerSeq[CHOOSE i \in DOMAIN UpperSeq : UpperSeq[i] = c]>>
    ELSE IF c = "U+0130" THEN <<"i", "U+0307">> ELSE <<c>>

(***************************************************************************)
(* String operations of JavaScript, as the code uses them.                 *)
(***************************************************************************)
\* (computed by halves, to keep the evaluation of a long string shallow)
RECURSIVE toLowerCase(_)
toLowerCase(s) ==
  IF s = <<>> THEN <<>>
  ELSE IF Len(s) = 1 THEN LowerChar(s[1])
  ELSE LET half == Len(s) \div 2
       IN toLowerCase(SubSeq(s, 1, half))
            \o toLowerCase(SubSeq(s, half + 1, Len(s)))

\* String.length: the UTF-16 units of the characters
StringLength(s) ==
  Len(s) + Cardinality({i \in DOMAIN s : Utf16Units(s[i]) = 2})

trim(s) ==
  LET keep == {i \in DOMAIN s : ~IsWhiteSpace(s[i])}
  IN IF keep = {} THEN <<>>
     ELSE SubSeq(s, CHOOSE i \in keep : \A j \in keep : i <= j,
                    CHOOSE i \in keep : \A j \in keep : j <= i)

\* s.replace(/[^a-zA-Z0-9]/g, "")
RemoveNonAlnum(s) == SelectSeq(s, IsAsciiAlnum)

NotWhiteSpace(c) == ~IsWhiteSpace(c)

\* s.replace(/\s/g, "")
RemoveWhiteSpace(s) == SelectSeq(s, NotWhiteSpace)

\* s.split("").reverse().join("")
Reverse(s) == [i \in 1..Len(s) |-> s[Len(s) + 1 - i]]

\* s.split(/\s+/): the pieces between the maximal runs of white space; a run
\* at either end leaves an empty piece there, and "" splits into [""]
RECURSIVE SplitWhiteSpace(_)
SplitWhiteSpace(s) ==
  LET ws == {i \in DOMAIN s : IsWhiteSpace(s[i])}
  IN IF ws = {} THEN <<s>>
     ELSE LET i == CHOOSE k \in ws : \A j \in ws : k <= j
              after == {k \in (i + 1)..Len(s) : ~IsWhiteSpace(s[k])}
              j == IF after = {} THEN Len(s) + 1
                   ELSE CHOOSE k \in after : \A m \in after : k <= m
          IN <<SubSeq(s, 1, i - 1)>> \o SplitWhiteSpace(SubSeq(s, j, Len(s)))

\* new Set(s): the distinct characters of s
CharSet(s) == Range(s)

\* crypto.createHash("sha256").update(s).digest("hex"): the digest is modelled
\* as its preimage under a tag, i.e. SHA-256 without collisions
sha256(s) == <<"sha256">> \o s

(***************************************************************************)
(* Request values.  A value of a JSON body or of a query string is a       *)
(* string, or something else of which only the type matters.               *)
(***************************************************************************)
Str(s) == [type |-> "string", str |-> s]

NotAString(type) == [type |-> type, str |-> <<>>]

Spaces(n) == [i \in 1..n |-> " "]

\* no response has been sent yet
NoResponse == [method |-> "-", arg |-> Str(<<>>), status |-> 0]

\* the response to a request: res.status(status)
Answered(method, arg, status) ==
  [method |-> method, arg |-> arg, status |-> status]

(***************************************************************************)
(* The analyzer: analyzeString, one operator per constant of its body.     *)
(***************************************************************************)
cleanStr(trimmedString) == toLowerCase(RemoveNonAlnum(trimmedString))

length(trimmedString) == StringLength(trimmedString)

isPalindrome_noEmptyCheck(trimmedString) ==
  cleanStr(trimmedString) = Reverse(cleanStr(trimmedString))

isPalindrome(trimmedString) ==
  /\ Len(cleanStr(trimmedString)) > 0
  /\ cleanStr(trimmedString) = Reverse(cleanStr(trimmedString))

uniqueCharacters_caseSensitive(trimmedString) ==
  Cardinality(CharSet(RemoveWhiteSpace(trimmedString)))

uniqueCharacters(trimmedString) ==
  Cardinality(CharSet(RemoveWhiteSpace(toLowerCase(trimmedString))))

wordCount_splitEachSpace(trimmedString) ==
  IF StringLength(trimmedString) = 0 THEN 0
  ELSE Cardinality({i \in DOMAIN trimmedString :
                      IsWhiteSpace(trimmedString[i])}) + 1

wordCount(trimmedString) ==
  IF StringLength(trimmedString) = 0 THEN 0
  ELSE Len(SplitWhiteSpace(trim(trimmedString)))

sha256Hash(trimmedString) == sha256(trimmedString)

characterFrequency_skipAllWhiteSpace(trimmedString) ==
  LET lowered == toLowerCase(trimmedString)
  IN [c \in {x \in CharSet(lowered) : ~IsWhiteSpace(x)} |->
        Cardinality({i \in DOMAIN lowered : lowered[i] = c})]

\* the loop over trimmedString.toLowerCase(), which for...of walks by character
characterFrequency(trimmedString) ==
  LET lowered == toLowerCase(trimmedString)
  IN [c \in CharSet(lowered) \ {" "} |->
        Cardinality({i \in DOMAIN lowered : lowered[i] = c})]

analyzeString_noTrim(inputString) ==
  [length |-> length(inputString),
   is_palindrome |-> isPalindrome(inputString),
   unique_characters |-> uniqueCharacters(inputString),
   word_count |-> wordCount(inputString),
   sha256_hash |-> sha256Hash(inputString),
   character_frequency_map |-> characterFrequency(inputString)]

analyzeString(inputString) ==
  LET trimmedString == trim(inputString)
  IN [length |-> length(trimmedString),
      is_palindrome |-> isPalindrome(trimmedString),
      unique_characters |-> uniqueCharacters(trimmedString),
      word_count |-> wordCount(trimmedString),
      sha256_hash |-> sha256Hash(trimmedString),
      character_frequency_map |-> characterFrequency(trimmedString)]

(***************************************************************************)
(* SpecAnalyze: analyzeString applied to every input of a bounded set.     *)
(***************************************************************************)
AnalyzerChars == {"a", "A", "b", " ", "\t", "!", "U+1F600", "U+0130"}

SeqsUpTo(S, n) == UNION {[1..k -> S] : k \in 0..n}

\* the examples the documentation gives for the analyzer, and one input
\* with an interior space and an interior tab
SampleInputs ==
  { <<"m","a","d","a","m">>,
    <<" ","m","a","d","a","m"," ">>,
    <<"a"," ","a">>,
    <<" "," ","a"," "," "," ","b"," "," ">>,
    <<"!","!","!">>,
    <<"a"," ","\t","A">>,
    <<"A"," ","m","a","n",","," ","a"," ","p","l","a","n",","," ","a"," ",
      "c","a","n","a","l",":"," ","P","a","n","a","m","a">> }

AnalyzerInputs == SeqsUpTo(AnalyzerChars, MaxInputLen) \cup SampleInputs

InitAnalyze ==
  /\ anInput \in AnalyzerInputs
  /\ anResult = [done |-> FALSE]
  /\ store = {}
  /\ now = 0
  /\ nodeEnv = "production"
  /\ req = <<>>
  /\ res = NoResponse
  /\ nlQuery = Str(<<>>)
  /\ nlResp = [done |-> FALSE]
  /\ listQuery = <<>>
  /\ listResp = [done |-> FALSE]
  /\ routeReq = <<>>
  /\ limiter = <<>>

Analyze ==
  /\ ~anResult.done
  /\ anResult' = [done |-> TRUE, properties |-> analyzeString(anInput)]
  /\ UNCHANGED <<store, now, nodeEnv, req, res, anInput, nlQuery, nlResp>>
  /\ UNCHANGED <<listQuery, listResp, routeReq, limiter>>

NextAnalyze == Analyze

SpecAnalyze == InitAnalyze /\ [][NextAnalyze]_vars

(***************************************************************************)
(* Regular expressions.  A position is the index of the next character to  *)
(* read; each operator gives the positions a piece of a pattern can end at *)
(* when it starts at one of the positions P.  String.prototype.match       *)
(* without the g flag takes the leftmost start that matches.               *)
(***************************************************************************)
MatchAt(s, p, lit) ==
  /\ p + Len(lit) - 1 <= Len(s)
  /\ \A i \in 1..Len(lit) : s[p + i - 1] = lit[i]

\* a literal
AfterLit(s, P, lit) == {p + Len(lit) : p \in {q \in P : MatchAt(s, q, lit)}}

\* an alternation of literals
AfterAny(s, P, lits) == UNION {AfterLit(s, P, lit) : lit \in lits}

\* the position after the longest run of white space that starts at p
SpacesEnd(s, p) ==
  LET others == {q \in p..Len(s) : ~IsWhiteSpace(s[q])}
  IN IF others = {} THEN IF p <= Len(s) THEN Len(s) + 1 ELSE p
     ELSE CHOOSE q \in others : \A r \in others : q <= r

\* the position after the longest run of digits that starts at p
RECURSIVE DigitsEnd(_, _)
DigitsEnd(s, p) ==
  IF p <= Len(s) /\ IsDigit(s[p]) THEN DigitsEnd(s, p + 1) ELSE p

\* \s+: one or more characters of the run
AfterSpaces(s, P) == UNION {(p + 1)..SpacesEnd(s, p) : p \in P}

\* \d+
AfterDigits(s, P) == UNION {(p + 1)..DigitsEnd(s, p) : p \in P}

\* one character of a class
AfterOneOf(s, P, class) == {p + 1 : p \in {q \in P : q <= Len(s) /\ s[q] \in class}}

Min(P) == CHOOSE p \in P : \A q \in P : p <= q

\* the text a greedy (\d+) captures from position p, when nothing or only
\* something that is no digit follows it in the pattern
DigitsFrom(s, p) == SubSeq(s, p, DigitsEnd(s, p) - 1)

Starts(s) == 1..Len(s)

\* s.match(/lit1|lit2|.../): does some literal occur
MatchesAny(s, lits) == \E p \in Starts(s) : AfterAny(s, {p}, lits) # {}

\* s.match(/<lit>(\d+)/): [matched, the capture of the leftmost match]
MatchNumberAfter(s, lit) ==
  LET ok == {p \in Starts(s) : AfterDigits(s, AfterLit(s, {p}, lit)) # {}}
  IN IF ok = {} THEN [matched |-> FALSE, num |-> <<>>]
     ELSE [matched |-> TRUE, num |-> DigitsFrom(s, Min(ok) + Len(lit))]

\* the integer a string of digits writes
RECURSIVE ParseDigits(_)
ParseDigits(ds) ==
  IF ds = <<>> THEN 0
  ELSE 10 * ParseDigits(SubSeq(ds, 1, Len(ds) - 1))
         + ((CHOOSE i \in DOMAIN DigitSeq : DigitSeq[i] = ds[Len(ds)]) - 1)

\* the integer a string of digits writes, with or without a sign
IntegerOf(str) ==
  IF str # <<>> /\ Head(str) = "-" THEN 0 - ParseDigits(Tail(str))
  ELSE ParseDigits(str)

\* 2^n
RECURSIVE Pow2(_)
Pow2(n) == IF n = 0 THEN 1 ELSE 2 * Pow2(n - 1)

\* the distance between the Numbers around the natural number n: 1 up to
\* 2^MantissaBits, 2 up to twice that, and so on
RECURSIVE Spacing(_)
Spacing(n) == IF n < Pow2(MantissaBits) THEN 1 ELSE 2 * Spacing(n \div 2)

\* the Number nearest to the integer n, ties to the even significand: what
\* the result of parsing or adding is rounded to
RoundToNumber(n) ==
  LET abs == IF n < 0 THEN 0 - n ELSE n
      s == Spacing(abs)
      q == abs \div s
      r == abs % s
      up == \/ 2 * r > s
            \/ 2 * r = s /\ q % 2 = 1
      rounded == IF up THEN (q + 1) * s ELSE q * s
  IN IF n < 0 THEN 0 - rounded ELSE rounded

\* a + b of two Numbers that are integers
NumberAdd(a, b) == RoundToNumber(a + b)

\* parseInt of a string of digits, with or without a sign
parseInt(str) == RoundToNumber(IntegerOf(str))

\* Number.prototype.toString of an integer
RECURSIVE NatToString(_)
NatToString(n) ==
  IF n < 10 THEN <<DigitSeq[n + 1]>>
  ELSE NatToString(n \div 10) \o <<DigitSeq[(n % 10) + 1]>>

toString(n) == IF n < 0 THEN <<"-">> \o NatToString(0 - n) ELSE NatToString(n)

(***************************************************************************)
(* The translator: parseNaturalLanguageQuery, one operator per rule.  A    *)
(* rule takes the lower-cased query and the filters so far and gives the   *)
(* filters after it.                                                       *)
(***************************************************************************)
NoFilters == [k \in {} |-> <<>>]

\* filters.key = value
Assign(filters, key, value) ==
  [k \in DOMAIN filters \cup {key} |-> IF k = key THEN value ELSE filters[k]]

\* the literals of the patterns
Lit ==
  [strings |-> <<"s","t","r","i","n","g","s">>,
   stats |-> <<"s","t","a","t","s">>,
   statistics |-> <<"s","t","a","t","i","s","t","i","c","s">>,
   other |-> <<"o","t","h","e","r">>,
   filter_by_natural_language |->
     <<"f","i","l","t","e","r","-","b","y","-","n","a","t","u","r","a","l",
       "-","l","a","n","g","u","a","g","e">>,
   palindrome |-> <<"p","a","l","i","n","d","r","o","m","e">>,
   palindromic |-> <<"p","a","l","i","n","d","r","o","m","i","c">>,
   true |-> <<"t","r","u","e">>,
   false |-> <<"f","a","l","s","e">>,
   single_word |-> <<"s","i","n","g","l","e"," ","w","o","r","d">>,
   one_word |-> <<"o","n","e"," ","w","o","r","d">>,
   word_1 |-> <<"1"," ","w","o","r","d">>,
   two_words |-> <<"t","w","o"," ","w","o","r","d","s">>,
   words_2 |-> <<"2"," ","w","o","r","d","s">>,
   three_words |-> <<"t","h","r","e","e"," ","w","o","r","d","s">>,
   words_3 |-> <<"3"," ","w","o","r","d","s">>,
   word |-> <<"w","o","r","d">>,
   longer_than_ |-> <<"l","o","n","g","e","r"," ","t","h","a","n"," ">>,
   shorter_than_ |-> <<"s","h","o","r","t","e","r"," ","t","h","a","n"," ">>,
   at_least_ |-> <<"a","t"," ","l","e","a","s","t"," ">>,
   at_most_ |-> <<"a","t"," ","m","o","s","t"," ">>,
   more_than_ |-> <<"m","o","r","e"," ","t","h","a","n"," ">>,
   less_than_ |-> <<"l","e","s","s"," ","t","h","a","n"," ">>,
   between_ |-> <<"b","e","t","w","e","e","n"," ">>,
   and_ |-> <<" ","a","n","d"," ">>,
   contain |-> <<"c","o","n","t","a","i","n">>,
   contains |-> <<"c","o","n","t","a","i","n","s">>,
   with |-> <<"w","i","t","h">>,
   having |-> <<"h","a","v","i","n","g">>,
   include |-> <<"i","n","c","l","u","d","e">>,
   includes |-> <<"i","n","c","l","u","d","e","s">>,
   letter |-> <<"l","e","t","t","e","r">>,
   character |-> <<"c","h","a","r","a","c","t","e","r">>,
   the_letter |-> <<"t","h","e"," ","l","e","t","t","e","r">>,
   the_character |-> <<"t","h","e"," ","c","h","a","r","a","c","t","e","r">>,
   vowel |-> <<"v","o","w","e","l">>,
   consonant |-> <<"c","o","n","s","o","n","a","n","t">>]

matchesPalindrome(lowerQuery) ==
  MatchesAny(lowerQuery, {Lit.palindrome, Lit.palindromic})

rulePalindrome(lowerQuery, filters) ==
  IF matchesPalindrome(lowerQuery)
    THEN Assign(filters, "is_palindrome", Lit.true) ELSE filters

matchesOneWord(lowerQuery) ==
  MatchesAny(lowerQuery, {Lit.single_word, Lit.one_word, Lit.word_1})

ruleOneWord(lowerQuery, filters) ==
  IF matchesOneWord(lowerQuery)
    THEN Assign(filters, "word_count", <<"1">>) ELSE filters

matchesTwoWords(lowerQuery) ==
  MatchesAny(lowerQuery, {Lit.two_words, Lit.words_2})

ruleTwoWords(lowerQuery, filters) ==
  IF matchesTwoWords(lowerQuery)
    THEN Assign(filters, "word_count", <<"2">>) ELSE filters

matchesThreeWords(lowerQuery) ==
  MatchesAny(lowerQuery, {Lit.three_words, Lit.words_3})

ruleThreeWords(lowerQuery, filters) ==
  IF matchesThreeWords(lowerQuery)
    THEN Assign(filters, "word_count", <<"3">>) ELSE filters

\* lowerQuery.match(/(\d+)\s+words?/)
exactWords(lowerQuery) ==
  LET ok == {p \in Starts(lowerQuery) :
               AfterLit(lowerQuery,
                        AfterSpaces(lowerQuery, AfterDigits(lowerQuery, {p})),
                        Lit.word) # {}}
  IN IF ok = {} THEN [matched |-> FALSE, num |-> <<>>]
     ELSE [matched |-> TRUE, num |-> DigitsFrom(lowerQuery, Min(ok))]

ruleExactWords_keepsPhrased(lowerQuery, filters) ==
  IF exactWords(lowerQuery).matched /\ "word_count" \notin DOMAIN filters
    THEN Assign(filters, "word_count", exactWords(lowerQuery).num)
    ELSE filters

ruleExactWords(lowerQuery, filters) ==
  IF exactWords(lowerQuery).matched
    THEN Assign(filters, "word_count", exactWords(lowerQuery).num)
    ELSE filters

longer(lowerQuery) == MatchNumberAfter(lowerQuery, Lit.longer_than_)

ruleLonger(lowerQuery, filters) ==
  IF longer(lowerQuery).matched
    THEN Assign(filters, "min_length",
                toString(NumberAdd(parseInt(longer(lowerQuery).num), 1)))
    ELSE filters

shorter(lowerQuery) == MatchNumberAfter(lowerQuery, Lit.shorter_than_)

ruleShorter(lowerQuery, filters) ==
  IF shorter(lowerQuery).matched
    THEN Assign(filters, "max_length",
                toString(NumberAdd(parseInt(shorter(lowerQuery).num), -1)))
    ELSE filters

atLeast(lowerQuery) == MatchNumberAfter(lowerQuery, Lit.at_least_)

ruleAtLeast(lowerQuery, filters) ==
  IF atLeast(lowerQuery).matched
    THEN Assign(filters, "min_length", atLeast(lowerQuery).num)
    ELSE filters

atMost(lowerQuery) == MatchNumberAfter(lowerQuery, Lit.at_most_)

ruleAtMost(lowerQuery, filters) ==
  IF atMost(lowerQuery).matched
    THEN Assign(filters, "max_length", atMost(lowerQuery).num)
    ELSE filters

moreThan(lowerQuery) == MatchNumberAfter(lowerQuery, Lit.more_than_)

ruleMoreThan_inclusive(lowerQuery, filters) ==
  IF moreThan(lowerQuery).matched
    THEN Assign(filters, "min_length", moreThan(lowerQuery).num)
    ELSE filters

ruleMoreThan(lowerQuery, filters) ==
  IF moreThan(lowerQuery).matched
    THEN Assign(filters, "min_length",
                toString(NumberAdd(parseInt(moreThan(lowerQuery).num), 1)))
    ELSE filters

lessThan(lowerQuery) == MatchNumberAfter(lowerQuery, Lit.less_than_)

ruleLessThan(lowerQuery, filters) ==
  IF lessThan(lowerQuery).matched
    THEN Assign(filters, "max_length",
                toString(NumberAdd(parseInt(lessThan(lowerQuery).num), -1)))
    ELSE filters

\* lowerQuery.match(/between (\d+) and (\d+)/)
between(lowerQuery) ==
  LET firstEnds(p) ==
        AfterDigits(lowerQuery, AfterLit(lowerQuery, {p}, Lit.between_))
      secondStarts(p) == AfterLit(lowerQuery, firstEnds(p), Lit.and_)
      ok == {p \in Starts(lowerQuery) :
               AfterDigits(lowerQuery, secondStarts(p)) # {}}
  IN IF ok = {} THEN [matched |-> FALSE, lo |-> <<>>, hi |-> <<>>]
     ELSE [matched |-> TRUE,
           lo |-> SubSeq(lowerQuery, Min(ok) + Len(Lit.between_),
                         Min(secondStarts(Min(ok))) - Len(Lit.and_) - 1),
           hi |-> DigitsFrom(lowerQuery, Min(secondStarts(Min(ok))))]

ruleBetween_keepsEarlier(lowerQuery, filters) ==
  IF between(lowerQuery).matched
    THEN LET withMin == IF "min_length" \in DOMAIN filters THEN filters
                        ELSE Assign(filters, "min_length",
                                    between(lowerQuery).lo)
         IN IF "max_length" \in DOMAIN withMin THEN withMin
            ELSE Assign(withMin, "max_length", between(lowerQuery).hi)
    ELSE filters

ruleBetween(lowerQuery, filters) ==
  IF between(lowerQuery).matched
    THEN Assign(Assign(filters, "min_length", between(lowerQuery).lo),
                "max_length", between(lowerQuery).hi)
    ELSE filters

\* lowerQuery.match(/(?:contains?|with|having|include|includes?)\s+
\*   (?:letter|character|the letter|the character)\s+['"]?([a-zA-Z])['"]?/)
charMatch(lowerQuery) ==
  LET letterAt(p) ==
        LET noun == AfterAny(lowerQuery,
                      AfterSpaces(lowerQuery,
                        AfterAny(lowerQuery, {p},
                          {Lit.contain, Lit.contains, Lit.with, Lit.having,
                           Lit.include, Lit.includes})),
                      {Lit.letter, Lit.character, Lit.the_letter,
                       Lit.the_character})
            gap == AfterSpaces(lowerQuery, noun)
            quoted == gap \cup AfterOneOf(lowerQuery, gap, {"'", "\""})
        IN {q \in quoted :
              AfterOneOf(lowerQuery, {q},
                         LowerLetters \cup UpperLetters) # {}}
      ok == {p \in Starts(lowerQuery) : letterAt(p) # {}}
  IN IF ok = {} THEN [matched |-> FALSE, char |-> <<>>]
     ELSE [matched |-> TRUE,
           char |-> <<lowerQuery[Min(letterAt(Min(ok)))]>>]

ruleCharMatch_replacesFilters(lowerQuery, filters) ==
  IF charMatch(lowerQuery).matched
    THEN Assign(NoFilters, "contains_character",
                toLowerCase(charMatch(lowerQuery).char))
    ELSE filters

ruleCharMatch(lowerQuery, filters) ==
  IF charMatch(lowerQuery).matched
    THEN Assign(filters, "contains_character",
                toLowerCase(charMatch(lowerQuery).char))
    ELSE filters

\* <verb>\s+(?:a\s+)?<noun> for one of the verbs
VerbThenNoun(s, verbs, noun) ==
  \E p \in Starts(s) :
    LET gap == AfterSpaces(s, AfterAny(s, {p}, verbs))
        article == AfterSpaces(s, AfterLit(s, gap, <<"a">>))
    IN AfterLit(s, gap \cup article, noun) # {}

matchesVowel(lowerQuery) ==
  VerbThenNoun(lowerQuery, {Lit.contain, Lit.contains, Lit.with, Lit.having},
               Lit.vowel)

ruleVowel_keepsLetter(lowerQuery, filters) ==
  IF matchesVowel(lowerQuery) /\ "contains_character" \notin DOMAIN filters
    THEN Assign(filters, "contains_character", <<"a">>) ELSE filters

ruleVowel(lowerQuery, filters) ==
  IF matchesVowel(lowerQuery)
    THEN Assign(filters, "contains_character", <<"a">>) ELSE filters

matchesConsonant(lowerQuery) ==
  VerbThenNoun(lowerQuery, {Lit.contain, Lit.contains, Lit.with}, Lit.consonant)

ruleConsonant(lowerQuery, filters) ==
  IF matchesConsonant(lowerQuery)
    THEN Assign(filters, "contains_character", <<"b">>) ELSE filters

parseNaturalLanguageQuery(query) ==
  LET lowerQuery == toLowerCase(query)
      f1 == rulePalindrome(lowerQuery, NoFilters)
      f2 == ruleOneWord(lowerQuery, f1)
      f3 == ruleTwoWords(lowerQuery, f2)
      f4 == ruleThreeWords(lowerQuery, f3)
      f5 == ruleExactWords(lowerQuery, f4)
      f6 == ruleLonger(lowerQuery, f5)
      f7 == ruleShorter(lowerQuery, f6)
      f8 == ruleAtLeast(lowerQuery, f7)
      f9 == ruleAtMost(lowerQuery, f8)
      f10 == ruleMoreThan(lowerQuery, f9)
      f11 == ruleLessThan(lowerQuery, f10)
      f12 == ruleBetween(lowerQuery, f11)
      f13 == ruleCharMatch(lowerQuery, f12)
      f14 == ruleVowel(lowerQuery, f13)
  IN ruleConsonant(lowerQuery, f14)

(***************************************************************************)
(* Errors and the error handler.  An error is what errorHandler reads of   *)
(* it; statusCode 0 and isOperational FALSE stand for undefined.           *)
(***************************************************************************)
ValidationError ==
  [name |-> "ValidatorError", statusCode |-> 400, isOperational |-> TRUE]

NotFoundError ==
  [name |-> "NotFoundError", statusCode |-> 404, isOperational |-> TRUE]

ConflictError ==
  [name |-> "ConflictError", statusCode |-> 409, isOperational |-> TRUE]

\* an error that is no AppError: a rejected pool.execute (such as MySQL's
\* duplicate-entry error) or a URIError
PlainError == [name |-> "Error", statusCode |-> 0, isOperational |-> FALSE]

\* errorHandler without the branch of the other environments
errorHandler_alwaysStatusCode(err) ==
  IF err.statusCode = 0 THEN 500 ELSE err.statusCode

\* the status errorHandler answers with
errorHandler(err) ==
  LET statusCode == IF err.statusCode = 0 THEN 500 ELSE err.statusCode
  IN IF nodeEnv = "development" THEN statusCode
     ELSE IF err.isOperational THEN statusCode ELSE 500

Threw(err) == [threw |-> TRUE, error |-> err]

Passed == [threw |-> FALSE]

\* !value
Falsy(value) ==
  \/ value.type \in {"undefined", "null"}
  \/ value.type = "string" /\ value.str = <<>>

validateStringInput(value) ==
  IF value.type \in {"undefined", "null"} THEN Threw(ValidationError)
  ELSE IF value.type # "string" THEN Threw(ValidationError)
  ELSE IF StringLength(trim(value.str)) = 0 THEN Threw(ValidationError)
  ELSE IF StringLength(value.str) > MaxValueLength
    THEN Threw(ValidationError)
  ELSE Passed

\* decodeURIComponent: the escapes the model's keys use; a "%" that starts
\* none of them is malformed and throws URIError
Escapes ==
  { <<"2", "5", "%">>, <<"2", "0", " ">>, <<"4", "1", "A">>,
    <<"6", "1", "a">> }

RECURSIVE decodeURIComponent(_)
decodeURIComponent(s) ==
  IF s = <<>> THEN [threw |-> FALSE, str |-> <<>>]
  ELSE IF Head(s) # "%"
    THEN LET rest == decodeURIComponent(Tail(s))
         IN IF rest.threw THEN rest
            ELSE [threw |-> FALSE, str |-> <<Head(s)>> \o rest.str]
  ELSE IF Len(s) < 3 \/ ~\E e \in Escapes : e[1] = s[2] /\ e[2] = s[3]
    THEN [threw |-> TRUE, str |-> <<>>]
  ELSE LET e == CHOOSE x \in Escapes : x[1] = s[2] /\ x[2] = s[3]
           rest == decodeURIComponent(SubSeq(s, 4, Len(s)))
       IN IF rest.threw THEN rest
          ELSE [threw |-> FALSE, str |-> <<e[3]>> \o rest.str]

(***************************************************************************)
(* The strings table and the model functions (stringModel) over it.        *)
(***************************************************************************)
\* PRIMARY KEY (id): an INSERT of an id the table holds is rejected
PrimaryKeyViolated_noKey(id) == FALSE

PrimaryKeyViolated(id) == \E row \in store : row.id = id

\* the row INSERT INTO strings adds at time t; created_at defaults to
\* CURRENT_TIMESTAMP
StoredRow(data, t) ==
  [id |-> data.id,
   value |-> data.value,
   length |-> data.length,
   is_palindrome |-> data.is_palindrome,
   unique_characters |-> data.unique_characters,
   word_count |-> data.word_count,
   character_frequency |-> data.character_frequency_map,
   created_at |-> t]

InsertedRow(data) == StoredRow(data, now)

\* stringData with the hash of the lower-cased value as id
stringData_idOfLowerCase(trimmedValue) ==
  LET properties == analyzeString(trimmedValue)
  IN [id |-> sha256(toLowerCase(trimmedValue)),
      value |-> trimmedValue,
      length |-> properties.length,
      is_palindrome |-> properties.is_palindrome,
      unique_characters |-> properties.unique_characters,
      word_count |-> properties.word_count,
      character_frequency_map |-> properties.character_frequency_map]

\* the stringData createString builds from analyzeString(trimmedValue)
stringData(trimmedValue) ==
  LET properties == analyzeString(trimmedValue)
  IN [id |-> properties.sha256_hash,
      value |-> trimmedValue,
      length |-> properties.length,
      is_palindrome |-> properties.is_palindrome,
      unique_characters |-> properties.unique_characters,
      word_count |-> properties.word_count,
      character_frequency_map |-> properties.character_frequency_map]

\* stringModel.existsByValue
existingStringByValue(value) == \E row \in store : row.id = sha256(value)

\* stringModel.findById: the rows SELECT ... WHERE id = ? LIMIT 1 can return
findStringById(id) == {row \in store : row.id = id}

\* stringModel.findByValue
findStringByValue(value) == findStringById(sha256(value))

\* the weight string of utf8mb4_unicode_ci, the collation of column value:
\* letters compare without case and trailing spaces do not count
RECURSIVE CollationKey(_)
CollationKey(s) ==
  IF s # <<>> /\ s[Len(s)] = " " THEN CollationKey(SubSeq(s, 1, Len(s) - 1))
  ELSE toLowerCase(s)

\* stringModel.findByRawValue: the rows SELECT ... WHERE value = ? LIMIT 1
\* can return
findStringByRawValue(value) ==
  {row \in store : CollationKey(row.value) = CollationKey(value)}

\* stringModel.deleteByValue: the rows DELETE ... WHERE id = ? removes
deleteStringByValue(value) == {row \in store : row.id = sha256(value)}

(***************************************************************************)
(* Spec: requests against the table.  Each connection carries one request  *)
(* at a time; a handler runs from one await to the next in one step.       *)
(***************************************************************************)
Requests == 1..MaxRequests

Idle == [pc |-> "idle", arg |-> Str(<<>>)]

\* createString waits for the answer of stringModel.existsByValue
Inserting(value) == [pc |-> "insert", arg |-> value]

\* values of req.body.value in POST /strings
CreateValues ==
  { Str(<<"a">>), Str(<<" ", "a", " ">>), Str(<<"A">>),
    Str(<<"a">> \o Spaces(MaxValueLength)),
    Str(<<"%">>),
    Str(<<>>), Str(<<" ">>), NotAString("number"), NotAString("undefined") }

\* values of req.params.string_value in DELETE /strings/:string_value
DeleteParams ==
  { <<"a">>, <<" ", "A">>, <<"%", "6", "1">>, <<"%">> }

\* values of req.params.string_value in GET /strings/:string_value
GetParams == { <<"a">>, <<"A">>, <<"%">>, <<"%", "6", "1">> }

Init ==
  /\ store = {}
  /\ now = 0
  /\ nodeEnv \in {"development", "production"}
  /\ req = [r \in Requests |-> Idle]
  /\ res = NoResponse
  /\ anInput = <<>>
  /\ anResult = [done |-> FALSE]
  /\ nlQuery = Str(<<>>)
  /\ nlResp = [done |-> FALSE]
  /\ listQuery = <<>>
  /\ listResp = [done |-> FALSE]
  /\ routeReq = <<>>
  /\ limiter = <<>>

\* POST /strings: validateStringInput, then createString up to the answer of
\* stringModel.existsByValue
createString(r, value) ==
  /\ req[r].pc = "idle"
  /\ LET valid == validateStringInput(value)
         trimmedValue == trim(value.str)
     IN IF valid.threw
          THEN /\ res' = Answered("POST", value, errorHandler(valid.error))
               /\ req' = req
        ELSE IF Falsy(value) \/ value.type # "string"
          THEN /\ res' = Answered("POST", value,
                                  errorHandler(ValidationError))
               /\ req' = req
        ELSE IF existingStringByValue(trimmedValue)
          THEN /\ res' = Answered("POST", value, errorHandler(ConflictError))
               /\ req' = req
        ELSE /\ req' = [req EXCEPT ![r] = Inserting(value)]
             /\ res' = res
  /\ UNCHANGED <<store, now, nodeEnv, anInput, anResult, nlQuery, nlResp>>
  /\ UNCHANGED <<listQuery, listResp, routeReq, limiter>>

\* createString from the answer of existsByValue on: analyzeString,
\* stringModel.create and the response
createString_insert(r) ==
  /\ req[r].pc = "insert"
  /\ LET trimmedValue == trim(req[r].arg.str)
     IN IF PrimaryKeyViolated(stringData(trimmedValue).id)
          THEN /\ store' = store
               /\ res' = Answered("POST", req[r].arg,
                                  errorHandler(PlainError))
          ELSE /\ store' = store \cup {InsertedRow(stringData(trimmedValue))}
               /\ res' = Answered("POST", req[r].arg, 201)
  /\ req' = [req EXCEPT ![r] = Idle]
  /\ UNCHANGED <<now, nodeEnv, anInput, anResult, nlQuery, nlResp>>
  /\ UNCHANGED <<listQuery, listResp, routeReq, limiter>>

\* DELETE /strings/:string_value, on a connection that carries no other
\* request
deleteString(string_value) ==
  /\ \E r \in Requests : req[r].pc = "idle"
  /\ LET uri == decodeURIComponent(string_value)
         decoded == trim(uri.str)
         deleted == deleteStringByValue(decoded)
     IN IF uri.threw
          THEN /\ store' = store
               /\ res' = Answered("DELETE", Str(string_value),
                                  errorHandler(PlainError))
          ELSE /\ store' = store \ deleted
               /\ res' = Answered("DELETE", Str(string_value),
                                  IF deleted # {} THEN 204
                                  ELSE errorHandler(NotFoundError))
  /\ UNCHANGED <<now, nodeEnv, req, anInput, anResult, nlQuery, nlResp>>
  /\ UNCHANGED <<listQuery, listResp, routeReq, limiter>>

\* the body of the 200 response of getString
RecordBody(record) ==
  [id |-> record.id,
   value |-> record.value,
   properties |->
     [length |-> record.length,
      is_palindrome |-> record.is_palindrome,
      unique_characters |-> record.unique_characters,
      word_count |-> record.word_count,
      sha256_hash |-> record.id,
      character_frequency_map |-> record.character_frequency],
   created_at |-> record.created_at]

\* GET /strings/:string_value, on a connection that carries no other
\* request
getString(string_value) ==
  /\ \E r \in Requests : req[r].pc = "idle"
  /\ LET uri == decodeURIComponent(string_value)
         decoded == trim(uri.str)
         byHash == findStringByValue(decoded)
         records == IF byHash # {} THEN byHash
                    ELSE findStringByRawValue(decoded)
     IN IF uri.threw
          THEN res' = Answered("GET", Str(string_value),
                               errorHandler(PlainError))
        ELSE IF records = {}
          THEN res' = Answered("GET", Str(string_value),
                               errorHandler(NotFoundError))
        ELSE \E record \in records :
               res' = [method |-> "GET", arg |-> Str(string_value),
                       status |-> 200, body |-> RecordBody(record)]
  /\ UNCHANGED <<store, now, nodeEnv, req, anInput, anResult, nlQuery, nlResp>>
  /\ UNCHANGED <<listQuery, listResp, routeReq, limiter>>

\* the database clock advances
Tick ==
  /\ now < MaxTime
  /\ now' = now + 1
  /\ UNCHANGED <<store, nodeEnv, req, res, anInput, anResult, nlQuery,
                 nlResp>>
  /\ UNCHANGED <<listQuery, listResp, routeReq, limiter>>

Next ==
  \/ \E r \in Requests, value \in CreateValues : createString(r, value)
  \/ \E r \in Requests : createString_insert(r)
  \/ \E string_value \in DeleteParams : deleteString(string_value)
  \/ \E string_value \in GetParams : getString(string_value)
  \/ Tick

Spec == Init /\ [][Next]_vars

(***************************************************************************)
(* stringModel.findAll and the natural-language handler.                   *)
(***************************************************************************)
\* a filter value taken as a condition: a non-empty string is truthy
Truthy(filters, key) == key \in DOMAIN filters /\ filters[key] # <<>>

NumberClause(column, op, num) ==
  [column |-> column, op |-> op, num |-> num, path |-> <<>>]

\* the conditions findAllStrings appends to WHERE 1=1, with their parameters
\* (a boolean parameter reaches MySQL as 1 or 0)
whereClauses(filters) ==
  (IF "is_palindrome" \in DOMAIN filters
     THEN {NumberClause("is_palindrome", "=",
                        IF filters["is_palindrome"] = Lit.true THEN 1 ELSE 0)}
     ELSE {})
  \cup (IF Truthy(filters, "min_length")
          THEN {NumberClause("length", ">=", parseInt(filters["min_length"]))}
          ELSE {})
  \cup (IF Truthy(filters, "max_length")
          THEN {NumberClause("length", "<=", parseInt(filters["max_length"]))}
          ELSE {})
  \cup (IF Truthy(filters, "word_count")
          THEN {NumberClause("word_count", "=",
                             parseInt(filters["word_count"]))}
          ELSE {})
  \cup (IF Truthy(filters, "contains_character")
          THEN {[column |-> "character_frequency", op |-> "JSON_EXTRACT",
                 num |-> 0,
                 path |-> <<"$", ".">>
                            \o toLowerCase(filters["contains_character"])]}
          ELSE {})

\* the member of the path `$.${...}`
PathMember(path) == SubSeq(path, 3, Len(path))

\* what MySQL makes of the path $.<member>: the member named by an
\* identifier (a letter, _ or $, then these, digits or combining marks), the
\* wildcard $.* of all members, or no path at all
PathKind(path) ==
  LET member == PathMember(path)
      IdStart == LowerLetters \cup UpperLetters \cup {"_", "$"}
      IdPart == IdStart \cup Digits \cup {"U+0307"}
  IN IF member = <<"*">> THEN "wildcard"
     ELSE IF /\ member # <<>>
             /\ Head(member) \in IdStart
             /\ \A i \in DOMAIN member : member[i] \in IdPart
       THEN "member"
     ELSE "invalid"

\* the conditions whose path MySQL refuses (ER_INVALID_JSON_PATH)
InvalidPaths(clauses) ==
  {clause \in clauses :
     clause.op = "JSON_EXTRACT" /\ PathKind(clause.path) = "invalid"}

\* does the row satisfy one condition; JSON_EXTRACT(character_frequency,
\* '$.x') IS NOT NULL holds when the object has the member x, and with '$.*'
\* when it has any member
RowSatisfies(row, clause) ==
  CASE clause.column = "is_palindrome" ->
         (IF row.is_palindrome THEN 1 ELSE 0) = clause.num
    [] clause.column = "length" /\ clause.op = ">=" ->
         row.length >= clause.num
    [] clause.column = "length" /\ clause.op = "<=" ->
         row.length <= clause.num
    [] clause.column = "word_count" -> row.word_count = clause.num
    [] clause.column = "character_frequency" ->
         IF PathKind(clause.path) = "wildcard"
           THEN DOMAIN row.character_frequency # {}
           ELSE PathMember(clause.path)
                  \in {<<c>> : c \in DOMAIN row.character_frequency}

\* the element of the response made of a row
ResponseItem(row) ==
  [id |-> row.id,
   value |-> row.value,
   properties |->
     [length |-> row.length,
      is_palindrome |-> row.is_palindrome,
      unique_characters |-> row.unique_characters,
      word_count |-> row.word_count,
      sha256_hash |-> row.id,
      character_frequency |-> row.character_frequency],
   created_at |-> row.created_at]

\* ORDER BY created_at DESC: the orders a set of rows can come back in
OrderedByCreatedAtDesc(rows) ==
  {s \in [1..Cardinality(rows) -> rows] :
     /\ \A i, j \in DOMAIN s : i # j => s[i] # s[j]
     /\ \A i, j \in DOMAIN s : i < j => s[i].created_at >= s[j].created_at}

Returned(strings) == [threw |-> FALSE, strings |-> strings]

\* the outcomes of findAllStrings: the rows it returns, in one of the orders
\* they can come back in; or the error of pool.execute when MySQL refuses a
\* path, which it does when it evaluates the condition on a row (with no row
\* left to evaluate it on, the statement may also return no rows)
findAllStrings(filters) ==
  LET clauses == whereClauses(filters)
      sound == clauses \ InvalidPaths(clauses)
      rows == {row \in store : \A clause \in sound : RowSatisfies(row, clause)}
  IN IF InvalidPaths(clauses) # {}
       THEN {Threw(PlainError)}
              \cup (IF rows = {} THEN {Returned(<<>>)} ELSE {})
       ELSE {Returned([i \in DOMAIN s |-> ResponseItem(s[i])]) :
               s \in OrderedByCreatedAtDesc(rows)}

validateNaturalLanguageQuery(query) ==
  IF Falsy(query) \/ query.type # "string" THEN Threw(ValidationError)
  ELSE IF StringLength(trim(query.str)) = 0 THEN Threw(ValidationError)
  ELSE IF StringLength(query.str) > MaxQueryLength
    THEN Threw(ValidationError)
  ELSE Passed

\* is the string a number as Number() reads it: digits with or without a
\* sign, white space around them allowed (also the empty string, which is 0)
IsNumeric(str) ==
  LET s == trim(str)
      digits == IF s # <<>> /\ Head(s) \in {"-", "+"} THEN Tail(s) ELSE s
  IN \/ s = <<>>
     \/ digits # <<>> /\ \A i \in DOMAIN digits : IsDigit(digits[i])

\* isNaN of a string
isNaN(str) == ~IsNumeric(str)

\* min_length, max_length or word_count is refused
BadCount(query, key) ==
  Truthy(query, key) /\ (isNaN(query[key]) \/ parseInt(query[key]) < 0)

validateQueryParams_noOrderCheck(query) ==
  IF \/ Truthy(query, "is_palindrome")
          /\ query["is_palindrome"] \notin {Lit.true, Lit.false}
     \/ BadCount(query, "min_length")
     \/ BadCount(query, "max_length")
     \/ BadCount(query, "word_count")
     \/ Truthy(query, "contains_character")
          /\ StringLength(query["contains_character"]) # 1
    THEN Threw(ValidationError)
    ELSE Passed

\* validateQueryParams, of a query whose values are strings
validateQueryParams(query) ==
  IF Truthy(query, "is_palindrome")
       /\ query["is_palindrome"] \notin {Lit.true, Lit.false}
    THEN Threw(ValidationError)
  ELSE IF BadCount(query, "min_length") THEN Threw(ValidationError)
  ELSE IF BadCount(query, "max_length") THEN Threw(ValidationError)
  ELSE IF /\ Truthy(query, "min_length") /\ Truthy(query, "max_length")
          /\ parseInt(query["min_length"]) > parseInt(query["max_length"])
    THEN Threw(ValidationError)
  ELSE IF BadCount(query, "word_count") THEN Threw(ValidationError)
  ELSE IF Truthy(query, "contains_character")
            /\ StringLength(query["contains_character"]) # 1
    THEN Threw(ValidationError)
  ELSE Passed

\* Object.keys(filters).length === 0
HasNoKeys_never(filters) == FALSE

HasNoKeys(filters) == DOMAIN filters = {}

(***************************************************************************)
(* SpecTranslate: the translator and the natural-language handler applied  *)
(* to every query of a bounded set, over a table that holds some rows.     *)
(***************************************************************************)
\* the phrases queries are made of
Phrases ==
  << <<"b","a","n","a","n","a">>,
    <<"p","a","l","i","n","d","r","o","m","e">>,
    <<"s","i","n","g","l","e"," ","w","o","r","d">>,
    <<"t","w","o"," ","w","o","r","d","s">>,
    <<"3"," ","w","o","r","d","s">>,
    <<"l","o","n","g","e","r"," ","t","h","a","n"," ","5">>,
    <<"s","h","o","r","t","e","r"," ","t","h","a","n"," ","0">>,
    <<"a","t"," ","l","e","a","s","t"," ","1","0">>,
    <<"a","t"," ","m","o","s","t"," ","7">>,
    <<"m","o","r","e"," ","t","h","a","n"," ","9">>,
    <<"l","e","s","s"," ","t","h","a","n"," ","3">>,
    <<"b","e","t","w","e","e","n"," ","5"," ","a","n","d"," ","1","0">>,
    <<"w","i","t","h"," ","l","e","t","t","e","r"," ","a">>,
    <<"c","o","n","t","a","i","n","s"," ","a"," ","v","o","w","e","l">>,
    <<"w","i","t","h"," ","c","o","n","s","o","n","a","n","t">>,
    <<"W","i","t","h"," ","T","h","e"," ","C","h","a","r","a","c","t","e",
      "r"," ","'","Q","'">> >>

\* queries taken as they are: the examples the documentation gives, and
\* other wordings of the rules
SingleQueries ==
  { <<"s","i","n","g","l","e"," ","w","o","r","d",","," ","4"," ","w","o",
      "r","d","s">>,
    <<"p","a","l","i","n","d","r","o","m","e"," ","w","i","t","h"," ","l",
      "e","t","t","e","r"," ","a">>,
    <<"s","i","n","g","l","e"," ","w","o","r","d",","," ","3"," ","w","o",
      "r","d","s">>,
    <<"b","e","t","w","e","e","n"," ","5"," ","a","n","d"," ","1","0">>,
    <<"b","a","n","a","n","a">>,
    <<"P","a","l","i","n","d","r","o","m","i","c"," ","s","t","r","i","n",
      "g","s">>,
    <<"o","n","e"," ","w","o","r","d">>,
    <<"t","h","r","e","e"," ","w","o","r","d","s">>,
    <<"1"," ","w","o","r","d">>,
    <<"2"," ","w","o","r","d","s">>,
    <<"s","h","o","r","t","e","r"," ","t","h","a","n"," ","1","0">>,
    <<"b","e","t","w","e","e","n"," ","1","0"," ","a","n","d"," ","5">>,
    <<"w","i","t","h"," ","l","e","t","t","e","r"," ","a","p","p","l","e">>,
    <<"c","o","n","t","a","i","n","i","n","g"," ","t","h","e"," ","l","e",
      "t","t","e","r"," ","z">>,
    <<"i","n","c","l","u","d","e","s"," ","c","h","a","r","a","c","t","e",
      "r"," ","x">>,
    <<"i","n","c","l","u","d","e"," ","t","h","e"," ","l","e","t","t","e",
      "r"," ","\"","k","\"">>,
    <<"h","a","v","i","n","g"," ","a"," ","v","o","w","e","l">>,
    <<"h","a","v","i","n","g"," ","a"," ","c","o","n","s","o","n","a","n",
      "t">>,
    <<"c","o","n","t","a","i","n"," ","c","o","n","s","o","n","a","n","t">>,
    <<"a","t"," ","l","e","a","s","t"," ","0","0","7">>,
    <<"1","2"," ","a","p","p","l","e","s"," ","3"," "," ","w","o","r","d",
      "s">>,
    <<"w","i","t","h"," ","l","e","t","t","e","r"," ","z"," ","w","i","t",
      "h"," ","l","e","t","t","e","r"," ","a">>,
    <<"l","o","n","g","e","r"," ","t","h","a","n"," ","5"," ","l","o","n",
      "g","e","r"," ","t","h","a","n"," ","2">>,
    <<"l","o","n","g","e","r"," ","t","h","a","n"," ","1","7">>,
    <<"l","e","s","s"," ","t","h","a","n"," ","1","8">>,
    <<"a","t"," ","m","o","s","t"," ","1","7">> }

\* the queries made of at most n phrases, taken in their order from the
\* phrase numbered from on, with one space between two phrases
RECURSIVE Joined(_, _)
Joined(n, from) ==
  IF n = 0 THEN {}
  ELSE UNION {{Phrases[i]}
                \cup {Phrases[i] \o <<" ">> \o q : q \in Joined(n - 1, i + 1)} :
              i \in from..Len(Phrases)}

PhraseQueries(n) == Joined(n, 1)

\* values of req.query.query
QueryValues ==
  {Str(q) : q \in PhraseQueries(MaxPhrases) \cup SingleQueries}
    \cup { Str(<<>>), Str(<<" ">>), NotAString("undefined"),
           NotAString("object"),
           Str(Lit.palindrome \o Spaces(MaxQueryLength)) }

\* the row a successful POST of trimmedValue at time t leaves
RowOf(trimmedValue, t) == StoredRow(stringData(trimmedValue), t)

SampleStores ==
  { {},
    {RowOf(<<"a">>, 0), RowOf(<<"a", "b", " ", "c">>, 1)} }

InitTranslate ==
  /\ store \in SampleStores
  /\ now = 1
  /\ nodeEnv \in {"development", "production"}
  /\ req = <<>>
  /\ res = NoResponse
  /\ anInput = <<>>
  /\ anResult = [done |-> FALSE]
  /\ nlQuery \in QueryValues
  /\ nlResp = [done |-> FALSE]
  /\ listQuery = <<>>
  /\ listResp = [done |-> FALSE]
  /\ routeReq = <<>>
  /\ limiter = <<>>

\* what the handler did: the status it answered, whether it called
\* stringModel.findAll and with which conditions and result, and its local
\* variable filters once parseNaturalLanguageQuery has returned
Rejected(err, parsed, filters) ==
  [done |-> TRUE, status |-> errorHandler(err), queried |-> FALSE,
   where |-> {}, data |-> <<>>, parsed |-> parsed, filters |-> filters]

\* GET /strings/filter-by-natural-language as the route declares it:
\* validateNaturalLanguageQuery, then filterByNaturalLanguage
filterByNaturalLanguage ==
  /\ ~nlResp.done
  /\ LET valid == validateNaturalLanguageQuery(nlQuery)
         filters == parseNaturalLanguageQuery(nlQuery.str)
     IN IF valid.threw
          THEN nlResp' = Rejected(valid.error, FALSE, NoFilters)
        ELSE IF Falsy(nlQuery)
          THEN nlResp' = Rejected(ValidationError, FALSE, NoFilters)
        ELSE IF HasNoKeys(filters)
          THEN nlResp' = Rejected(ValidationError, TRUE, filters)
        ELSE \E found \in findAllStrings(filters) :
               nlResp' = [done |-> TRUE,
                          status |-> IF found.threw
                                       THEN errorHandler(found.error)
                                       ELSE 200,
                          queried |-> TRUE,
                          where |-> whereClauses(filters),
                          data |-> IF found.threw THEN <<>>
                                   ELSE found.strings,
                          parsed |-> TRUE, filters |-> filters]
  /\ UNCHANGED <<store, now, nodeEnv, req, res, anInput, anResult, nlQuery>>
  /\ UNCHANGED <<listQuery, listResp, routeReq, limiter>>

NextTranslate == filterByNaturalLanguage

SpecTranslate == InitTranslate /\ [][NextTranslate]_vars

(***************************************************************************)
(* SpecList: one GET /strings request on a table some POST requests have   *)
(* filled.                                                                 *)
(***************************************************************************)
\* a parameter the query string does not have
Absent == <<"undefined">>

\* values of req.query: each parameter absent or one of some values
ListQueries ==
  LET choices ==
        [is_palindrome :
           {Absent, Lit.true, Lit.false, <<"y", "e", "s">>, <<>>},
         min_length : {Absent, <<"0">>, <<"2">>, <<"x">>},
         max_length : {Absent, <<"1">>, <<"3">>, <<"-", "1">>},
         word_count : {Absent, <<"1">>, <<"2">>},
         contains_character :
           {Absent, <<"a">>, <<"B">>, <<"1">>, <<"*">>, <<"a", "b">>,
            <<"U+1F600">>}]
  IN {[key \in {k \in DOMAIN c : c[k] # Absent} |-> c[key]] : c \in choices}

ListStores ==
  { {},
    {RowOf(<<"a", "1">>, 0), RowOf(<<"a", "b", "a">>, 1),
     RowOf(<<"b", " ", "c">>, 1)},
    {RowOf(<<"A">>, 0), RowOf(<<"2">>, 1)} }

InitList ==
  /\ store \in ListStores
  /\ now = 1
  /\ nodeEnv \in {"development", "production"}
  /\ req = <<>>
  /\ res = NoResponse
  /\ anInput = <<>>
  /\ anResult = [done |-> FALSE]
  /\ nlQuery = Str(<<>>)
  /\ nlResp = [done |-> FALSE]
  /\ listQuery \in ListQueries
  /\ listResp = [done |-> FALSE]
  /\ routeReq = <<>>
  /\ limiter = <<>>

\* the response of GET /strings; an error response has no data
ListAnswer(status, strings) ==
  [done |-> TRUE, status |-> status, data |-> strings,
   count |-> Len(strings), filters_applied |-> listQuery]

\* GET /strings as the route declares it: validateQueryParams, then
\* getAllStrings
getAllStrings ==
  /\ ~listResp.done
  /\ LET valid == validateQueryParams(listQuery)
     IN IF valid.threw
          THEN listResp' = ListAnswer(errorHandler(valid.error), <<>>)
          ELSE \E found \in findAllStrings(listQuery) :
                 listResp' = IF found.threw
                               THEN ListAnswer(errorHandler(found.error), <<>>)
                               ELSE ListAnswer(200, found.strings)
  /\ UNCHANGED <<store, now, nodeEnv, req, res, anInput, anResult, nlQuery,
                 nlResp, listQuery, routeReq, limiter>>

NextList == getAllStrings

SpecList == InitList /\ [][NextList]_vars

(***************************************************************************)
(* SpecRoute: requests of one method and path, as stringRouter and the     *)
(* handlers behind it in the application take them.  A path is the         *)
(* sequence of its segments after /api.                                    *)
(***************************************************************************)
\* the routes in the order of their registration; a segment that starts
\* with ":" is a parameter
Routes ==
  << [method |-> "POST", path |-> <<"strings">>,
      handler |-> "createString"],
     [method |-> "GET", path |-> <<"strings", ":string_value">>,
      handler |-> "getString"],
     [method |-> "GET", path |-> <<"strings">>,
      handler |-> "getAllStrings"],
     [method |-> "GET", path |-> <<"strings", "filter-by-natural-language">>,
      handler |-> "filterByNaturalLanguage"],
     [method |-> "GET", path |-> <<"strings", "stats", "statistics">>,
      handler |-> "getStatistics"],
     [method |-> "DELETE", path |-> <<"strings", ":string_value">>,
      handler |-> "deleteString"] >>

\* the characters of the segments the requests of the model have
SegmentText ==
  [strings |-> Lit.strings, stats |-> Lit.stats,
   statistics |-> Lit.statistics, other |-> Lit.other,
   a |-> <<"a">>, b |-> <<"b">>,
   natural |-> Lit.filter_by_natural_language]

\* the first route whose method and path match the request: a parameter
\* matches any one segment; with none, the request falls through to
\* notFoundHandler
FirstMatch(request) ==
  LET IsParam(segment) == segment \in {":string_value"}
      literal(segment) ==
        CASE segment = "strings" -> SegmentText.strings
          [] segment = "stats" -> SegmentText.stats
          [] segment = "statistics" -> SegmentText.statistics
          [] segment = "filter-by-natural-language" -> SegmentText.natural
      matches(route) ==
        /\ route.method = request.method
        /\ Len(route.path) = Len(request.path)
        /\ \A i \in DOMAIN route.path :
             IsParam(route.path[i])
               \/ literal(route.path[i]) = request.path[i]
      matching == {i \in DOMAIN Routes : matches(Routes[i])}
  IN IF matching = {} THEN "notFoundHandler"
     ELSE Routes[CHOOSE i \in matching : \A j \in matching : i <= j].handler

\* stringModel.getStatistics: the row of aggregates ("NULL" on an empty
\* table; an average is kept as the sum and the count it divides)
getStringStatistics ==
  LET lengths == {row.length : row \in store}
      times == {row.created_at : row \in store}
      Extreme(S, Before(_, _)) ==
        IF S = {} THEN "NULL" ELSE CHOOSE x \in S : \A y \in S : Before(y, x)
      AtMost(x, y) == x <= y
      AtLeast(x, y) == x >= y
      Total(column) ==
        LET RECURSIVE Sum(_)
            Sum(rows) ==
              IF rows = {} THEN 0
              ELSE LET row == CHOOSE x \in rows : TRUE
                   IN row[column] + Sum(rows \ {row})
        IN Sum(store)
  IN [total_strings |-> Cardinality(store),
      avg_length |-> IF store = {} THEN "NULL"
                     ELSE <<Total("length"), Cardinality(store)>>,
      max_length |-> Extreme(lengths, AtMost),
      min_length |-> Extreme(lengths, AtLeast),
      palindrome_count |->
        IF store = {} THEN "NULL"
        ELSE Cardinality({row \in store : row.is_palindrome}),
      avg_word_count |-> IF store = {} THEN "NULL"
                         ELSE <<Total("word_count"), Cardinality(store)>>,
      last_analyzed |-> Extreme(times, AtMost)]

\* GET /strings/stats/statistics
getStatistics ==
  /\ res' = [method |-> "GET", arg |-> Str(SegmentText.statistics),
             status |-> 200, body |-> [statistics |-> getStringStatistics]]
  /\ UNCHANGED <<store, now, nodeEnv, req, anInput, anResult, nlQuery, nlResp>>
  /\ UNCHANGED <<listQuery, listResp, routeReq, limiter>>

\* a request no route matches
notFoundHandler ==
  /\ res' = Answered(routeReq.method, Str(<<>>), errorHandler(NotFoundError))
  /\ UNCHANGED <<store, now, nodeEnv, req, anInput, anResult, nlQuery, nlResp>>
  /\ UNCHANGED <<listQuery, listResp, routeReq, limiter>>

\* the errors express.json passes on instead of a parsed body: a SyntaxError
\* with status 400 and the property body for a body that is not JSON, an
\* error with status 413 for a body over the limit
BodyParserError ==
  [malformed |-> [name |-> "SyntaxError", statusCode |-> 400,
                  isOperational |-> FALSE, body |-> TRUE],
   tooLarge |-> [name |-> "PayloadTooLargeError", statusCode |-> 413,
                 isOperational |-> FALSE, body |-> FALSE]]

\* the error middleware behind the body parsers: it answers the SyntaxError
\* of a body and passes every other error on, past the routes, to
\* errorHandler
jsonErrorMiddleware(err) ==
  /\ res' = Answered(routeReq.method, NotAString(routeReq.body),
                     IF err.name = "SyntaxError" /\ err.statusCode = 400
                          /\ err.body
                       THEN 400
                       ELSE errorHandler(err))
  /\ UNCHANGED <<store, now, nodeEnv, req, anInput, anResult, nlQuery, nlResp>>
  /\ UNCHANGED <<listQuery, listResp, routeReq, limiter>>

\* the requests: the body of a POST is one of CreateValues unless the body
\* parser fails on it, the query string of a GET is in nlQuery and listQuery
RouteRequests ==
  LET S == SegmentText
      parsed ==
        { [method |-> "POST", path |-> <<S.strings>>],
          [method |-> "GET", path |-> <<S.strings>>],
          [method |-> "GET", path |-> <<S.strings, S.a>>],
          [method |-> "GET", path |-> <<S.strings, S.b>>],
          [method |-> "GET", path |-> <<S.strings, S.natural>>],
          [method |-> "GET", path |-> <<S.strings, S.stats, S.statistics>>],
          [method |-> "DELETE", path |-> <<S.strings, S.a>>],
          [method |-> "DELETE", path |-> <<S.strings, sha256(S.a)>>],
          [method |-> "DELETE", path |-> <<S.strings>>],
          [method |-> "PUT", path |-> <<S.strings, S.a>>],
          [method |-> "POST", path |-> <<S.strings, S.a>>],
          [method |-> "GET", path |-> <<S.other>>],
          [method |-> "GET", path |-> <<>>] }
  IN {[method |-> q.method, path |-> q.path, body |-> "parsed"] : q \in parsed}
       \cup {[method |-> "POST", path |-> <<S.strings>>, body |-> b] :
                b \in DOMAIN BodyParserError}

InitRoute ==
  /\ store \in SampleStores
  /\ now = 1
  /\ nodeEnv \in {"development", "production"}
  /\ req = [r \in Requests |-> Idle]
  /\ res = NoResponse
  /\ anInput = <<>>
  /\ anResult = [done |-> FALSE]
  /\ nlQuery \in {Str(Lit.palindrome), Str(Lit.other), Str(<<>>),
                  NotAString("undefined")}
  /\ nlResp = [done |-> FALSE]
  /\ listQuery \in {NoFilters,
                    Assign(NoFilters, "is_palindrome", <<"y", "e", "s">>),
                    Assign(NoFilters, "contains_character", <<"1">>)}
  /\ listResp = [done |-> FALSE]
  /\ routeReq \in RouteRequests
  /\ limiter = <<>>

\* a request: the body parser, then the router, which hands the request to
\* the handlers of the first route that matches it (none of them passes it
\* on), the parameter decoded
route ==
  LET handler == IF routeReq.body = "parsed" THEN FirstMatch(routeReq)
                 ELSE "jsonErrorMiddleware"
  IN CASE handler = "jsonErrorMiddleware" ->
            jsonErrorMiddleware(BodyParserError[routeReq.body])
       [] handler = "createString" ->
            \E r \in Requests, value \in CreateValues : createString(r, value)
       [] handler = "getString" ->
            getString(decodeURIComponent(routeReq.path[2]).str)
       [] handler = "getAllStrings" -> getAllStrings
       [] handler = "filterByNaturalLanguage" -> filterByNaturalLanguage
       [] handler = "getStatistics" -> getStatistics
       [] handler = "deleteString" ->
            deleteString(decodeURIComponent(routeReq.path[2]).str)
       [] handler = "notFoundHandler" -> notFoundHandler

NextRoute ==
  \/ route
  \/ \E r \in Requests : createString_insert(r)

SpecRoute == InitRoute /\ [][NextRoute]_vars

(***************************************************************************)
(* SpecLimit: the rate limiter in front of /api, with the store it keeps   *)
(* in memory: for each client the hits of its current window and the time  *)
(* at which the window ends.  Times are in milliseconds.                   *)
(***************************************************************************)
windowMs == 15 + 60 * 1000

max == 100

\* the clock advances by TickMs, MaxTicks times
TickMs == 30000

MaxTicks == 3

\* the client whose requests are counted, and another one that sends at
\* most MaxOtherHits requests
Clients == {"ip1", "ip2"}

MaxOtherHits == 2

InitLimit ==
  /\ store = {}
  /\ now = 1
  /\ nodeEnv = "production"
  /\ req = <<>>
  /\ res = NoResponse
  /\ anInput = <<>>
  /\ anResult = [done |-> FALSE]
  /\ nlQuery = Str(<<>>)
  /\ nlResp = [done |-> FALSE]
  /\ listQuery = <<>>
  /\ listResp = [done |-> FALSE]
  /\ routeReq = <<>>
  /\ limiter = [clock |-> 0,
                totalHits |-> [ip \in Clients |-> 0],
                resetTime |-> [ip \in Clients |-> 0],
                admitted |-> [ip \in Clients |-> 0]]

\* a request of the client to /api: the store starts a new window for a
\* client that has none or whose window has ended, counts the hit, and the
\* request is passed on unless the hits exceed max
limit(ip) ==
  LET expired == limiter.resetTime[ip] <= limiter.clock
      hits == (IF expired THEN 0 ELSE limiter.totalHits[ip]) + 1
      reset == IF expired THEN limiter.clock + windowMs
               ELSE limiter.resetTime[ip]
  IN /\ hits <= max + 1
     /\ ip = "ip2" => limiter.admitted[ip] < MaxOtherHits
     /\ limiter' =
          [limiter EXCEPT !.totalHits[ip] = hits,
                          !.resetTime[ip] = reset,
                          !.admitted[ip] = IF hits <= max THEN @ + 1 ELSE @]
     /\ UNCHANGED <<store, now, nodeEnv, req, res, anInput, anResult, nlQuery,
                    nlResp, listQuery, listResp, routeReq>>

\* time passes
LimitTick ==
  /\ limiter.clock < MaxTicks * TickMs
  /\ limiter' = [limiter EXCEPT !.clock = @ + TickMs]
  /\ UNCHANGED <<store, now, nodeEnv, req, res, anInput, anResult, nlQuery,
                 nlResp, listQuery, listResp, routeReq>>

NextLimit ==
  \/ \E ip \in Clients : limit(ip)
  \/ LimitTick

SpecLimit == InitLimit /\ [][NextLimit]_vars

(***************************************************************************)
(* Properties of the analyzer (checked under SpecAnalyze).                 *)
(***************************************************************************)
Analyzed == anResult.done

Props == anResult.properties

RECURSIVE SumOver(_, _)
SumOver(f, S) ==
  IF S = {} THEN 0
  ELSE LET x == CHOOSE y \in S : TRUE IN f[x] + SumOver(f, S \ {x})

Count(s, Test(_)) == Cardinality({i \in DOMAIN s : Test(s[i])})

IsSpace(c) == c = " "

\* white space of at most one character, to put before and after an input
Pads == {<<>>, <<" ">>, <<"\t">>}

\* C4: the result of analyzeString depends only on the trimmed input: it is
\* the result for trim(input) and for every input that differs from it in
\* leading and trailing white space only, and the hash is the digest of the
\* trimmed original-case string, not of the cleaned lower-cased one.
C4_DependsOnlyOnTrim ==
  Analyzed =>
    /\ Props = analyzeString(trim(anInput))
    /\ \A before \in Pads, after \in Pads :
         analyzeString(before \o trim(anInput) \o after) = Props
    /\ Props.sha256_hash = sha256(trim(anInput))
    /\ cleanStr(trim(anInput)) # trim(anInput)
         => Props.sha256_hash # sha256(cleanStr(trim(anInput)))

\* " madam " has been analysed and has the hash of "madam", which is not the
\* hash of its cleaned form were the case different
C4_Witness ==
  /\ Analyzed
  /\ anInput = <<" ","m","a","d","a","m"," ">>
  /\ Props.sha256_hash = analyzeString(<<"m","a","d","a","m">>).sha256_hash

\* the cleaned string of the statement: trimmed, only [a-zA-Z0-9], lower case
Cleaned(s) ==
  LET t == trim(s)
      kept == {i \in DOMAIN t : IsAsciiAlnum(t[i])}
      nth(k) == CHOOSE i \in kept : Cardinality({j \in kept : j < i}) = k - 1
  IN toLowerCase([k \in 1..Cardinality(kept) |-> t[nth(k)]])

ReadsSameBackwards(c) == \A i \in DOMAIN c : c[i] = c[Len(c) + 1 - i]

\* the other case of an ASCII letter
OtherCase(c) ==
  IF c \in UpperLetters
    THEN LowerSeq[CHOOSE i \in DOMAIN UpperSeq : UpperSeq[i] = c]
    ELSE IF c \in LowerLetters
      THEN UpperSeq[CHOOSE i \in DOMAIN LowerSeq : LowerSeq[i] = c]
      ELSE c

InsertAt(s, i, c) == SubSeq(s, 1, i) \o <<c>> \o SubSeq(s, i + 1, Len(s))

RemoveAt(s, i) == SubSeq(s, 1, i - 1) \o SubSeq(s, i + 1, Len(s))

\* the inputs that differ from s in the case of one ASCII letter
AsciiCaseEdits(s) == {[s EXCEPT ![i] = OtherCase(s[i])] : i \in DOMAIN s}

\* the inputs that differ from s in one punctuation or white-space
\* character, inserted or removed
PunctuationEdits(s) ==
  {InsertAt(s, i, c) : i \in 0..Len(s), c \in {" ", "\t", "!", ","}}
    \cup {RemoveAt(s, i) : i \in {j \in DOMAIN s : ~IsAsciiAlnum(s[j])}}

\* the flag is true exactly when the cleaned string is non-empty and reads
\* the same backwards
FlagIsCleanedPalindrome ==
  /\ Props.is_palindrome
       = (Cleaned(anInput) # <<>> /\ ReadsSameBackwards(Cleaned(anInput)))
  /\ StringLength(Cleaned(anInput)) = 0 => ~Props.is_palindrome

\* C5 as stated: the flag is the one above, and no change of letter case
\* (of one ASCII letter, or of the whole input by toLowerCase) and no
\* insertion or removal of punctuation or white space changes it.
C5_Original ==
  Analyzed =>
    /\ FlagIsCleanedPalindrome
    /\ \A t \in AsciiCaseEdits(anInput) \cup {toLowerCase(anInput)}
                \cup PunctuationEdits(anInput) :
         analyzeString(t).is_palindrome = Props.is_palindrome

\* C5 as amended: the flag is true exactly when the trimmed input with
\* every character outside [a-zA-Z0-9] removed, then lower-cased, is
\* non-empty and reads the same backwards, and no change of the case of an
\* ASCII letter and no insertion or removal of punctuation or white space
\* changes the flag.
C5_PalindromeFlag ==
  Analyzed =>
    /\ FlagIsCleanedPalindrome
    /\ \A t \in AsciiCaseEdits(anInput) \cup PunctuationEdits(anInput) :
         analyzeString(t).is_palindrome = Props.is_palindrome

\* a palindrome in mixed case around punctuation has been analysed
C5_Witness ==
  /\ Analyzed
  /\ anInput = <<"a", "!", "A">>
  /\ Props.is_palindrome

\* the keys and counts of the statement: the characters of the lower-cased
\* trimmed input other than the space, each with its number of occurrences
FrequencyIsOccurrences ==
  LET lowered == toLowerCase(trim(anInput))
      freq == Props.character_frequency_map
  IN /\ DOMAIN freq = {lowered[i] : i \in DOMAIN lowered} \ {" "}
     /\ \A c \in DOMAIN freq :
          freq[c] = Cardinality({i \in DOMAIN lowered : lowered[i] = c})
     /\ " " \notin DOMAIN freq
     /\ \A c \in {"\t", "\n"} :
          (\E i \in DOMAIN lowered : lowered[i] = c) => c \in DOMAIN freq

FrequencySum ==
  SumOver(Props.character_frequency_map,
          DOMAIN Props.character_frequency_map)

SingleUnitChars(s) ==
  \A i \in DOMAIN s : Utf16Units(s[i]) = 1 /\ Len(LowerChar(s[i])) = 1

Runs(s) ==
  Cardinality({i \in DOMAIN s :
                 ~IsWhiteSpace(s[i]) /\ (i = 1 \/ IsWhiteSpace(s[i - 1]))})

\* C8: word_count is 0 exactly when the trimmed input is empty, and
\* otherwise the number of maximal runs of non-white-space characters of
\* the trimmed input.
C8_WordCount ==
  Analyzed =>
    /\ (Props.word_count = 0) <=> (trim(anInput) = <<>>)
    /\ Props.word_count = Runs(trim(anInput))
    /\ Props.word_count = Runs(anInput)

\* "  a   b  " has been analysed and has 2 words
C8_Witness ==
  /\ Analyzed
  /\ anInput = <<" "," ","a"," "," "," ","b"," "," ">>
  /\ Props.word_count = 2

(***************************************************************************)
(* Properties of the table under create and delete requests (Spec).        *)
(***************************************************************************)
\* C1: after any interleaving of create and delete requests the table holds
\* at most one row per distinct trimmed value and at most one row per
\* content hash.
C1_OneRecordPerValue ==
  \A r1 \in store, r2 \in store :
    (trim(r1.value) = trim(r2.value) \/ r1.id = r2.id) => r1 = r2

\* two rows are stored, and a create request that passed the existence
\* check has been refused by the table because its row was there already
C1_Witness ==
  /\ Cardinality(store) = 2
  /\ res.method = "POST" /\ res.status = 500
  /\ \E row \in store : row.value = trim(res.arg.str)

\* a create request for value starts in this step: it is answered at once,
\* or goes on to wait for the existence check
StartsCreate(value) ==
  \/ \E r \in Requests : req[r].pc = "idle" /\ req'[r] = Inserting(value)
  \/ /\ req' = req /\ res' # res
     /\ res'.method = "POST" /\ res'.arg = value

Stored(value) == \E row \in store : row.value = value

\* C2: a create request for a value whose trimmed form is stored when the
\* request starts is answered 409 and leaves the table as it is (the
\* existing row is neither overwritten nor duplicated and keeps created_at).
C2_DuplicateRejected ==
  [][\A value \in CreateValues :
       (StartsCreate(value) /\ value.type = "string"
          /\ Stored(trim(value.str)))
         => /\ req' = req
            /\ res'.status = 409
            /\ store' = store]_vars

\* C3: of the create requests for one trimmed value that pass the existence
\* check together, the one whose insert comes first is answered 201 and
\* every other one, finding the row there at its insert, is answered 409;
\* none ends in another error.
C3_ConcurrentCreates ==
  [][\A r \in Requests :
       (req[r].pc = "insert" /\ req'[r].pc = "idle")
         => IF Stored(trim(req[r].arg.str))
              THEN res'.status = 409 /\ store' = store
              ELSE res'.status = 201]_vars

(***************************************************************************)
(* Properties of the translator and of the natural-language handler        *)
(* (SpecTranslate).                                                        *)
(***************************************************************************)
\* the handler has answered a query that reached parseNaturalLanguageQuery
Translated == nlResp.done /\ nlResp.parsed

\* the filter keys, each with the test that some rule assigning it matches
RuleMatches(key, lowerQuery) ==
  CASE key = "is_palindrome" -> matchesPalindrome(lowerQuery)
    [] key = "word_count" ->
         \/ matchesOneWord(lowerQuery) \/ matchesTwoWords(lowerQuery)
         \/ matchesThreeWords(lowerQuery) \/ exactWords(lowerQuery).matched
    [] key = "min_length" ->
         \/ longer(lowerQuery).matched \/ atLeast(lowerQuery).matched
         \/ moreThan(lowerQuery).matched \/ between(lowerQuery).matched
    [] key = "max_length" ->
         \/ shorter(lowerQuery).matched \/ atMost(lowerQuery).matched
         \/ lessThan(lowerQuery).matched \/ between(lowerQuery).matched
    [] key = "contains_character" ->
         \/ charMatch(lowerQuery).matched \/ matchesVowel(lowerQuery)
         \/ matchesConsonant(lowerQuery)

FilterKeys ==
  {"is_palindrome", "word_count", "min_length", "max_length",
   "contains_character"}

NoRuleMatches(query) ==
  \A key \in FilterKeys : ~RuleMatches(key, toLowerCase(query))

\* C9: for a query that no rule matches, parseNaturalLanguageQuery returns
\* no filters and the handler answers 400 without calling the listing; and
\* whenever the handler calls the listing, the filters add at least one
\* condition to it and every row returned satisfies the conditions.
C9_NoMatchIsRejected ==
  nlResp.done =>
    /\ (nlQuery.type = "string" /\ NoRuleMatches(nlQuery.str))
         => /\ parseNaturalLanguageQuery(nlQuery.str) = NoFilters
            /\ nlResp.status = 400
            /\ ~nlResp.queried
    /\ nlResp.queried
         => /\ nlResp.where # {}
            /\ \A i \in DOMAIN nlResp.data :
                 \E row \in store :
                   /\ nlResp.data[i] = ResponseItem(row)
                   /\ \A clause \in nlResp.where : RowSatisfies(row, clause)

\* "banana" has been answered 400, with no filters and without a listing,
\* over a table that holds rows
C9_Witness ==
  /\ Translated
  /\ nlQuery = Str(<<"b","a","n","a","n","a">>)
  /\ nlResp.filters = NoFilters
  /\ nlResp.status = 400 /\ ~nlResp.queried
  /\ store # {}

\* the filters the rules of one key give when no rule of another key is
\* applied, in the order of the code
OnlyRulesOf(key, lowerQuery) ==
  CASE key = "is_palindrome" -> rulePalindrome(lowerQuery, NoFilters)
    [] key = "word_count" ->
         ruleExactWords(lowerQuery,
           ruleThreeWords(lowerQuery,
             ruleTwoWords(lowerQuery, ruleOneWord(lowerQuery, NoFilters))))
    [] key = "min_length" ->
         ruleBetween(lowerQuery,
           ruleMoreThan(lowerQuery,
             ruleAtLeast(lowerQuery, ruleLonger(lowerQuery, NoFilters))))
    [] key = "max_length" ->
         ruleBetween(lowerQuery,
           ruleLessThan(lowerQuery,
             ruleAtMost(lowerQuery, ruleShorter(lowerQuery, NoFilters))))
    [] key = "contains_character" ->
         ruleConsonant(lowerQuery,
           ruleVowel(lowerQuery, ruleCharMatch(lowerQuery, NoFilters)))

\* C10: the keys of the filters are exactly the keys some rule of which
\* matches the query, and the value of a key is the value the rules of that
\* key give by themselves, whatever the rules of the other keys do.
C10_KeysAccumulate ==
  Translated =>
    LET lowerQuery == toLowerCase(nlQuery.str)
        filters == nlResp.filters
    IN /\ DOMAIN filters = {key \in FilterKeys : RuleMatches(key, lowerQuery)}
       /\ \A key \in DOMAIN filters :
            filters[key] = OnlyRulesOf(key, lowerQuery)[key]

\* "palindrome with letter a" has been translated to is_palindrome "true"
\* and contains_character "a"
C10_Witness ==
  /\ Translated
  /\ nlQuery = Str(Lit.palindrome \o <<" ">> \o Lit.with \o <<" ">> \o Lit.letter
                     \o <<" ", "a">>)
  /\ DOMAIN nlResp.filters = {"is_palindrome", "contains_character"}
  /\ nlResp.filters["is_palindrome"] = Lit.true
  /\ nlResp.filters["contains_character"] = <<"a">>

\* the query has the digits num at position p, then white space, then "word"
NumericWordsAt(lowerQuery, p, num) ==
  /\ num # <<>> /\ \A i \in DOMAIN num : IsDigit(num[i])
  /\ MatchAt(lowerQuery, p, num)
  /\ AfterLit(lowerQuery, AfterSpaces(lowerQuery, {p + Len(num)}), Lit.word)
       # {}

\* the numeric word counts of the query: each with the position it starts at
NumericWords(lowerQuery) ==
  {<<p, q>> \in Starts(lowerQuery) \X Starts(lowerQuery) :
     /\ p <= q
     /\ NumericWordsAt(lowerQuery, p, SubSeq(lowerQuery, p, q))
     /\ (q = Len(lowerQuery) \/ ~IsDigit(lowerQuery[q + 1]))}

\* the phrased word counts of the query, as the numbers they stand for
PhrasedWords(lowerQuery) ==
  {n \in 1..3 :
     MatchesAny(lowerQuery,
                CASE n = 1 -> {Lit.single_word, Lit.one_word}
                  [] n = 2 -> {Lit.two_words}
                  [] n = 3 -> {Lit.three_words})}

\* C11: for a query with a phrased and a numeric word count, word_count is
\* the digits of the leftmost numeric one; for a query with phrased word
\* counts only, it is the count of the phrase (the largest, if several).
C11_NumericWordCountWins ==
  Translated =>
    LET lowerQuery == toLowerCase(nlQuery.str)
        filters == nlResp.filters
        numeric == NumericWords(lowerQuery)
        phrased == PhrasedWords(lowerQuery)
    IN /\ (phrased # {} /\ numeric # {})
            => /\ "word_count" \in DOMAIN filters
               /\ \E m \in numeric :
                    /\ \A other \in numeric : m[1] <= other[1]
                    /\ filters["word_count"]
                         = SubSeq(lowerQuery, m[1], m[2])
       /\ (phrased # {} /\ numeric = {})
            => /\ "word_count" \in DOMAIN filters
               /\ \A n \in phrased :
                    (\A other \in phrased : other <= n)
                      => filters["word_count"] = toString(n)

\* "single word, 4 words" has been translated to word_count "4"
C11_Witness ==
  /\ Translated
  /\ nlQuery = Str(Lit.single_word \o <<",", " ", "4", " ">> \o Lit.word
                    \o <<"s">>)
  /\ nlResp.filters = Assign(NoFilters, "word_count", <<"4">>)

\* C12: in a query without "between N and M", "at least M" beside "more
\* than N" or "longer than N" gives min_length M, and "at most M" beside
\* "less than N" or "shorter than N" gives max_length M.
C12_InclusiveOverridesExclusive ==
  Translated =>
    LET lowerQuery == toLowerCase(nlQuery.str)
        filters == nlResp.filters
    IN ~between(lowerQuery).matched =>
         /\ ( /\ atLeast(lowerQuery).matched
              /\ moreThan(lowerQuery).matched \/ longer(lowerQuery).matched )
              => filters["min_length"] = atLeast(lowerQuery).num
         /\ ( /\ atMost(lowerQuery).matched
              /\ lessThan(lowerQuery).matched \/ shorter(lowerQuery).matched )
              => filters["max_length"] = atMost(lowerQuery).num

\* the ranges of the query: <<p, N, M>> when "between N and M" stands at
\* position p, N and M being runs of digits
Ranges(lowerQuery) ==
  {<<p, DigitsFrom(lowerQuery, p + Len(Lit.between_)),
        DigitsFrom(lowerQuery,
                   DigitsEnd(lowerQuery, p + Len(Lit.between_))
                     + Len(Lit.and_))>> :
     p \in {s \in Starts(lowerQuery) :
              /\ MatchAt(lowerQuery, s, Lit.between_)
              /\ DigitsFrom(lowerQuery, s + Len(Lit.between_)) # <<>>
              /\ MatchAt(lowerQuery,
                         DigitsEnd(lowerQuery, s + Len(Lit.between_)),
                         Lit.and_)
              /\ DigitsFrom(lowerQuery,
                            DigitsEnd(lowerQuery, s + Len(Lit.between_))
                              + Len(Lit.and_)) # <<>>}}

\* C13: for a query with "between N and M" (the leftmost, if several),
\* min_length is N and max_length is M, whatever other length phrases the
\* query has.
C13_BetweenWins ==
  Translated =>
    LET lowerQuery == toLowerCase(nlQuery.str)
        filters == nlResp.filters
    IN \A range \in Ranges(lowerQuery) :
         (\A other \in Ranges(lowerQuery) : range[1] <= other[1])
           => /\ {"min_length", "max_length"} \subseteq DOMAIN filters
              /\ filters["min_length"] = range[2]
              /\ filters["max_length"] = range[3]

\* "longer than 5 between 5 and 10" has been translated to min_length "5"
\* and max_length "10"
C13_Witness ==
  /\ Translated
  /\ nlQuery = Str(Lit.longer_than_ \o <<"5", " ">> \o Lit.between_ \o <<"5">>
                     \o Lit.and_ \o <<"1", "0">>)
  /\ nlResp.filters["min_length"] = <<"5">>
  /\ nlResp.filters["max_length"] = <<"1", "0">>

\* the length phrases, each with the words before its number
LengthPhrases ==
  [longer |-> Lit.longer_than_, shorter |-> Lit.shorter_than_,
   atLeast |-> Lit.at_least_, atMost |-> Lit.at_most_,
   moreThan |-> Lit.more_than_, lessThan |-> Lit.less_than_,
   between |-> Lit.between_]

\* the positions of the query where the words stand before a digit
PhraseStarts(lowerQuery, words) ==
  {p \in Starts(lowerQuery) :
     /\ MatchAt(lowerQuery, p, words)
     /\ DigitsFrom(lowerQuery, p + Len(words)) # <<>>}

\* the length phrases the query has
LengthPhrasesOf(lowerQuery) ==
  {name \in DOMAIN LengthPhrases :
     PhraseStarts(lowerQuery, LengthPhrases[name]) # {}}

\* the integer N of the leftmost phrase with these words
NumberOfPhrase(lowerQuery, words) ==
  IntegerOf(DigitsFrom(lowerQuery,
                       Min(PhraseStarts(lowerQuery, words)) + Len(words)))

\* the filters are this one bound, of this value
OneBound(filters, key, n) ==
  /\ DOMAIN filters \cap {"min_length", "max_length"} = {key}
  /\ IntegerOf(filters[key]) = n

\* the bound a query with the one length phrase name must give, N being
\* the number of the phrase
BoundOfPhrase(filters, name, N) ==
  CASE name \in {"longer", "moreThan"} -> OneBound(filters, "min_length", N + 1)
    [] name \in {"shorter", "lessThan"} -> OneBound(filters, "max_length", N - 1)
    [] name = "atLeast" -> OneBound(filters, "min_length", N)
    [] name = "atMost" -> OneBound(filters, "max_length", N)
    [] name = "between" -> TRUE

\* C14 as stated: a query with one length phrase gives the bound of the
\* phrase (N + 1, N - 1 or N), for every N.
C14_Original ==
  Translated =>
    LET lowerQuery == toLowerCase(nlQuery.str)
    IN \A name \in DOMAIN LengthPhrases :
         LengthPhrasesOf(lowerQuery) = {name}
           => BoundOfPhrase(nlResp.filters, name,
                            NumberOfPhrase(lowerQuery, LengthPhrases[name]))

\* C14 as amended: a query with one length phrase gives the bound of the
\* phrase, N for "at least" and "at most" whatever N is, and N + 1 or N - 1
\* for the exclusive phrases when N and N + 1 are integers a Number holds
\* exactly (N + 1 <= 2^MantissaBits).
C14_SingleLengthPhrase ==
  Translated =>
    LET lowerQuery == toLowerCase(nlQuery.str)
    IN \A name \in DOMAIN LengthPhrases :
         LET N == NumberOfPhrase(lowerQuery, LengthPhrases[name])
         IN ( /\ LengthPhrasesOf(lowerQuery) = {name}
              /\ name \in {"atLeast", "atMost"}
                   \/ N + 1 <= Pow2(MantissaBits) )
              => BoundOfPhrase(nlResp.filters, name, N)

\* "more than 9" has been translated to min_length "10", as "at least 10"
\* is
C14_Witness ==
  /\ Translated
  /\ nlQuery = Str(Lit.more_than_ \o <<"9">>)
  /\ nlResp.filters = Assign(NoFilters, "min_length", <<"1", "0">>)
  /\ nlResp.filters
       = parseNaturalLanguageQuery(Lit.at_least_ \o <<"1", "0">>)

\* the value of the key is a non-negative integer
IsCount(filters, key) ==
  /\ filters[key] # <<>>
  /\ \A i \in DOMAIN filters[key] : IsDigit(filters[key][i])

SingleLetters(lowerQuery) ==
  LET Letters == LowerLetters \cup UpperLetters
      noun(p) == AfterAny(lowerQuery,
                   AfterSpaces(lowerQuery,
                     AfterAny(lowerQuery, {p},
                       {Lit.contains, Lit.with, Lit.having, Lit.include,
                        Lit.includes})),
                   {Lit.letter, Lit.character, Lit.the_letter, Lit.the_character})
      quoted(p) == LET gap == AfterSpaces(lowerQuery, noun(p))
                   IN gap \cup AfterOneOf(lowerQuery, gap, {"'", "\""})
      alone(q) == /\ q <= Len(lowerQuery)
                  /\ lowerQuery[q] \in Letters
                  /\ q + 1 <= Len(lowerQuery)
                       => lowerQuery[q + 1] \notin Letters
  IN {lowerQuery[q] : q \in {q \in UNION {quoted(p) : p \in Starts(lowerQuery)} :
                               alone(q)}}

\* C16: when neither the vowel nor the consonant rule matches, the filters
\* have contains_character exactly when the query has a keyword followed by
\* a single letter X, and its value is then that one lower-case letter; a
\* keyword followed by a word of several letters sets no filter.
C16_SingleLetterOnly ==
  Translated =>
    LET lowerQuery == toLowerCase(nlQuery.str)
        filters == nlResp.filters
    IN ~matchesVowel(lowerQuery) /\ ~matchesConsonant(lowerQuery)
         => /\ "contains_character" \in DOMAIN filters
                 <=> SingleLetters(lowerQuery) # {}
            /\ "contains_character" \in DOMAIN filters
                 => \E X \in SingleLetters(lowerQuery) :
                      /\ filters["contains_character"] = toLowerCase(<<X>>)
                      /\ X \in LowerLetters

\* the query has "contains", "with" or "having", an optional "a", and noun
HasPhrase(lowerQuery, noun) ==
  VerbThenNoun(lowerQuery, {Lit.contains, Lit.with, Lit.having}, noun)

\* C17 as stated: a query with a vowel phrase gives contains_character "a".
C17_Original ==
  Translated =>
    LET lowerQuery == toLowerCase(nlQuery.str)
    IN HasPhrase(lowerQuery, Lit.vowel)
         => /\ "contains_character" \in DOMAIN nlResp.filters
            /\ nlResp.filters["contains_character"] = <<"a">>

\* C17 as amended: a query with a vowel phrase gives contains_character "a",
\* whatever letter the containment rule finds in it, unless the consonant
\* rule matches it as well: that rule comes last and gives "b".
C17_VowelProxy ==
  Translated =>
    LET lowerQuery == toLowerCase(nlQuery.str)
    IN HasPhrase(lowerQuery, Lit.vowel)
         => /\ "contains_character" \in DOMAIN nlResp.filters
            /\ nlResp.filters["contains_character"]
                 = IF matchesConsonant(lowerQuery) THEN <<"b">> ELSE <<"a">>

\* a query with a vowel phrase and the explicit letter q has been
\* translated to "a"
C17_Witness ==
  /\ Translated
  /\ HasPhrase(toLowerCase(nlQuery.str), Lit.vowel)
  /\ charMatch(toLowerCase(nlQuery.str)).char = <<"q">>
  /\ ~matchesConsonant(toLowerCase(nlQuery.str))
  /\ nlResp.filters["contains_character"] = <<"a">>

\* C18: a query with a consonant phrase, its verb being "contains", "with"
\* or "having", gives contains_character "b" and is answered 200.
C18_ConsonantProxy ==
  Translated /\ HasPhrase(toLowerCase(nlQuery.str), Lit.consonant)
      => /\ "contains_character" \in DOMAIN nlResp.filters
         /\ nlResp.filters["contains_character"] = <<"b">>
         /\ nlResp.status = 200

(***************************************************************************)
(* Properties of the listing (checked under SpecList).                     *)
(***************************************************************************)
\* the query is a filter set: is_palindrome a boolean, the counts
\* non-negative integers with min_length not above max_length,
\* contains_character one character
IsFilterSet(query) ==
  /\ "is_palindrome" \in DOMAIN query
       => query["is_palindrome"] \in {Lit.true, Lit.false}
  /\ \A key \in DOMAIN query \cap {"min_length", "max_length", "word_count"} :
       IsCount(query, key)
  /\ {"min_length", "max_length"} \subseteq DOMAIN query
       => IntegerOf(query["min_length"]) <= IntegerOf(query["max_length"])
  /\ "contains_character" \in DOMAIN query
       => Len(query["contains_character"]) = 1

\* the record satisfies every filter the filter set has
SatisfiesFilters(row, query) ==
  /\ "is_palindrome" \in DOMAIN query
       => row.is_palindrome = (query["is_palindrome"] = Lit.true)
  /\ "min_length" \in DOMAIN query
       => row.length >= IntegerOf(query["min_length"])
  /\ "max_length" \in DOMAIN query
       => row.length <= IntegerOf(query["max_length"])
  /\ "word_count" \in DOMAIN query
       => row.word_count = IntegerOf(query["word_count"])
  /\ "contains_character" \in DOMAIN query
       => toLowerCase(query["contains_character"])
            \in {<<c>> : c \in DOMAIN row.character_frequency}

\* C19: the listing of a filter set is answered 200 with exactly the stored
\* records that satisfy every filter of the set, each once, the more
\* recently created first, and with their number as count.
C19_ListingIsExact ==
  listResp.done /\ IsFilterSet(listQuery)
    => LET data == listResp.data
       IN /\ listResp.status = 200
          /\ {data[i] : i \in DOMAIN data}
               = {ResponseItem(row) :
                    row \in {r \in store : SatisfiesFilters(r, listQuery)}}
          /\ \A i, j \in DOMAIN data : i # j => data[i] # data[j]
          /\ \A i, j \in DOMAIN data :
               i < j => data[i].created_at >= data[j].created_at
          /\ listResp.count = Len(data)

\* C25: a listing request is answered 400 exactly when is_palindrome is given
\* and is not 'true' or 'false', min_length, max_length or word_count is
\* given and is not a non-negative integer, min_length exceeds max_length, or
\* contains_character is given and is not a single character; every other
\* request is passed on to the listing.
C25_RejectedExactly ==
  listResp.done
    => (listResp.status = 400 <=> ~IsFilterSet(listQuery))

(***************************************************************************)
(* Properties of the lookup (checked under Spec).                          *)
(***************************************************************************)
\* encodeURIComponent, of the characters the stored values of the model have
RECURSIVE encodeURIComponent(_)
encodeURIComponent(s) ==
  IF s = <<>> THEN <<>>
  ELSE (CASE Head(s) = "%" -> <<"%", "2", "5">>
          [] Head(s) = " " -> <<"%", "2", "0">>
          [] OTHER -> <<Head(s)>>)
         \o encodeURIComponent(Tail(s))

\* req.params.string_value for a segment of the URL: the router decodes it
RouteParam(segment) == decodeURIComponent(segment).str

\* a GET /strings/<segment> request is answered in this step
AnswersGet(segment) ==
  /\ res' # res
  /\ res'.method = "GET"
  /\ res'.arg = Str(RouteParam(segment))

\* C20: a GET /strings/<URL-encoded v> for a stored v is answered 200 with
\* the stored value, its hash as id, and the length, is_palindrome,
\* unique_characters and word_count the create request returned.
C20_GetReturnsStored ==
  [][\A row \in store :
       AnswersGet(encodeURIComponent(row.value))
         => /\ res'.status = 200
            /\ res'.body.value = row.value
            /\ res'.body.id = sha256(row.value)
            /\ \A key \in {"length", "is_palindrome", "unique_characters",
                           "word_count"} :
                 res'.body.properties[key]
                   = analyzeString(row.value)[key]]_vars

\* a GET /strings/:string_value request with this parameter is answered in
\* this step
GetAnswered(string_value) ==
  /\ res' # res
  /\ res'.method = "GET"
  /\ res'.arg = Str(string_value)

\* C21: a GET for a value, coming next after the DELETE for it that was
\* answered 204, is answered 404; and the insert of a create request for
\* a value that is not stored is answered 201 and stores a record of the
\* value with the created_at of the insert.
C21_DeleteThenGetAndCreate ==
  [][/\ \A string_value \in GetParams :
          (/\ res.method = "DELETE" /\ res.status = 204
           /\ res.arg = Str(string_value)
           /\ GetAnswered(string_value))
            => res'.status = 404
     /\ \A r \in Requests :
          (/\ req[r].pc = "insert" /\ req'[r].pc = "idle"
           /\ ~Stored(trim(req[r].arg.str)))
            => /\ res'.status = 201
               /\ \E row \in store' \ store :
                    /\ row.value = trim(req[r].arg.str)
                    /\ row.created_at = now]_vars

\* a DELETE /strings/:string_value request with this parameter is answered
\* in this step
DeleteAnswered(string_value) ==
  /\ res' # res
  /\ res'.method = "DELETE"
  /\ res'.arg = Str(string_value)

\* C22: a delete request whose key is the content hash of a stored record
\* removes that record and is answered 204, as the request keyed by the
\* value is.
C22_DeleteByHash ==
  [][\A row \in store :
       DeleteAnswered(row.id)
         => /\ res'.status = 204
            /\ store' = store \ {row}]_vars

(***************************************************************************)
(* Properties of the router (checked under SpecRoute).                     *)
(***************************************************************************)
NaturalLanguageRequest ==
  /\ routeReq.method = "GET"
  /\ routeReq.path = <<SegmentText.strings, SegmentText.natural>>

\* C23: a GET of /strings/filter-by-natural-language is taken by the
\* natural-language validator and handler and never by the handler of
\* GET /strings/:string_value: the step that answers it leaves the lookup's
\* response alone and records the natural-language response, 200 with the
\* original query and the parsed filters when the query can be parsed, 400
\* when the query is missing or empty
C23_NaturalLanguageRouted ==
  [][NaturalLanguageRequest
       => /\ res' = res
          /\ nlResp'.done
          /\ (nlQuery.type # "string" \/ nlQuery.str = <<>>)
               => nlResp'.status = 400
          /\ (/\ nlQuery.type = "string"
              /\ ~HasNoKeys(parseNaturalLanguageQuery(nlQuery.str)))
               => /\ nlResp'.status = 200
                  /\ nlResp'.filters = parseNaturalLanguageQuery(nlQuery.str)]_vars

\* a step sends at most one response, and none only when createString goes
\* on to the insertion that will answer
OneResponse ==
  LET accepted == \E r \in Requests :
                    req[r].pc = "idle" /\ req'[r].pc = "insert"
      changed == {i \in 1..3 :
                    <<res, nlResp, listResp>>[i] # <<res', nlResp', listResp'>>[i]}
  IN IF accepted THEN changed = {} ELSE Cardinality(changed) <= 1

\* the status of a response that is not the answer to a failure of the body
\* parser, by the cause of the answer
StatusByCause ==
  LET handler == FirstMatch(routeReq)
      inserted == {r \in Requests : req[r].pc = "insert" /\ req'[r].pc = "idle"}
  IN /\ \A r \in inserted :
          res'.status = IF Stored(trim(req[r].arg.str)) THEN 500 ELSE 201
     /\ (res' # res /\ inserted = {} /\ routeReq.body = "parsed") =>
          CASE handler = "createString" ->
                 res'.status = IF validateStringInput(res'.arg).threw
                                 THEN 400 ELSE 409
            [] handler = "getString" ->
                 res'.status =
                   IF \E row \in store :
                        CollationKey(row.value) = CollationKey(routeReq.path[2])
                     THEN 200 ELSE 404
            [] handler = "deleteString" ->
                 res'.status = IF Stored(routeReq.path[2]) THEN 204 ELSE 404
            [] handler = "getStatistics" -> res'.status = 200
            [] handler = "notFoundHandler" -> res'.status = 404
            [] OTHER -> FALSE
     /\ listResp' # listResp =>
          IF validateQueryParams(listQuery).threw
            THEN listResp'.status = 400
          ELSE IF InvalidPaths(whereClauses(listQuery)) = {}
            THEN listResp'.status = 200
          ELSE \/ listResp'.status = 500
               \/ listResp'.status = 200 /\ listResp'.data = <<>>

BodyParserFailed == routeReq.body # "parsed" /\ res' # res

C26_Original ==
  [][/\ OneResponse
     /\ StatusByCause
     /\ BodyParserFailed => res'.status = 500]_vars

\* C26 (amended): every step of a request sends at most one response, and
\* none only when the insertion that answers is still to come; a
\* ValidationError, NotFoundError or ConflictError is answered 400, 404 or
\* 409, a rejected store call 500, a request no route matches 404; a body
\* that is not JSON is answered 400 by the middleware behind the body parser,
\* and an error that carries a status of its own (a body over the limit, 413)
\* is answered with that status in development and 500 otherwise.
C26_ErrorsAnswered ==
  [][/\ OneResponse
     /\ StatusByCause
     /\ BodyParserFailed =>
          res'.status =
            IF routeReq.body = "malformed" THEN 400
            ELSE IF nodeEnv = "development" THEN 413 ELSE 500]_vars

C26_Witness ==
  /\ routeReq.body = "tooLarge"
  /\ nodeEnv = "production"
  /\ res.status = 500

(***************************************************************************)
(* Properties of the validators and of the store (checked under Spec).     *)
(***************************************************************************)
\* a string whose trimmed length is between 1 and the maximum
TrimmedLengthInRange(value) ==
  /\ value.type = "string"
  /\ StringLength(trim(value.str)) \in 1..MaxValueLength

\* C28: every stored record has the hash of its value as id, a value that is
\* trimmed and has between 1 and the maximum number of characters, and the
\* length, is_palindrome, unique_characters, word_count and
\* character_frequency analyzeString computes for its value.
C28_StoredRecordsWellFormed ==
  \A r \in store :
    LET properties == analyzeString(r.value)
    IN /\ r.id = sha256(r.value)
       /\ r.value = trim(r.value)
       /\ StringLength(r.value) \in 1..MaxValueLength
       /\ r.length = properties.length
       /\ r.is_palindrome = properties.is_palindrome
       /\ r.unique_characters = properties.unique_characters
       /\ r.word_count = properties.word_count
       /\ r.character_frequency = properties.character_frequency_map

\* the record of a value that was sent with spaces around it, beside the
\* record of its upper-case form
C28_Witness ==
  /\ res = Answered("POST", Str(<<" ", "a", " ">>), 201)
  /\ \E r \in store : r.value = <<"a">>
  /\ \E r \in store : r.value = <<"A">>

\* C29: the table changes only by a successful create, which adds one record,
\* and by a successful delete, which removes exactly the record of the value
\* the request addresses; every other step, and every request answered 400,
\* 404 or 409, leaves the table as it is (so no record is ever modified).
C29_OnlyCreateAndDeleteChange ==
  [][/\ store' # store =>
          \/ /\ res'.method = "POST" /\ res'.status = 201
             /\ \E row \in store' \ store :
                  /\ row.value = trim(res'.arg.str)
                  /\ store' = store \cup {row}
          \/ /\ res'.method = "DELETE" /\ res'.status = 204
             /\ \E row \in store :
                  /\ row.value = trim(res'.arg.str)
                  /\ store' = store \ {row}
     /\ (res' # res /\ res'.status \in {400, 404, 409}) => store' = store]_vars

\* C24: a create request is accepted for analysis exactly when value is a
\* string whose trimmed length is between 1 and the maximum; every other
\* body is answered 400.
C24_AcceptedByTrimmedLength ==
  [][\A value \in CreateValues :
       /\ (/\ res' # res /\ req' = req
           /\ res'.method = "POST" /\ res'.arg = value)
            => (res'.status = 400 <=> ~TrimmedLengthInRange(value))
       /\ (\E r \in Requests :
             req[r].pc = "idle" /\ req'[r] = Inserting(value))
            => TrimmedLengthInRange(value)]_vars

(***************************************************************************)
(* Properties of the rate limiter (checked under SpecLimit).               *)
(***************************************************************************)
FifteenMinutes == 15 * 60 * 1000

\* C27: the limiter admits at most 100 requests of a client in a window of
\* 15 minutes: a window that is open ends 15 minutes after it began, and of
\* the requests a client sent in the first 15 minutes no more than 100 were
\* admitted.
C27_HundredPerFifteenMinutes ==
  limiter.clock < FifteenMinutes
    => \A ip \in Clients :
         /\ limiter.admitted[ip] <= 100
         /\ limiter.totalHits[ip] > 0
              => \E began \in 0..limiter.clock :
                   limiter.resetTime[ip] = began + FifteenMinutes

\* C30: a GET /strings/v is answered 200 exactly when a DELETE /strings/v
\* sent in the state of the GET would be answered 204, i.e. when
\* stringModel.deleteByValue of the decoded, trimmed v finds a row to delete:
\* the lookup by raw value finds no record the lookup by hash missed.
C30_GetAgreesWithDelete ==
  [][\A string_value \in GetParams :
       GetAnswered(string_value)
         => LET uri == decodeURIComponent(string_value)
            IN res'.status = 200
                 <=> (~uri.threw /\ deleteStringByValue(trim(uri.str)) # {})]_vars

====
